---- MODULE Spec2Model ----
(***************************************************************************)
(* MongoDB -> PostgreSQL sync worker (src/mongo_to_postgres_worker.py).    *)
(*                                                                         *)
(* The module models the schema-evolving replication engine: the type      *)
(* lattice and value codec as operators, the sink (registry tables,        *)
(* collection tables, junction tables, resume tokens) as state, and the    *)
(* change-stream consumer and the backfill driver as state machines over   *)
(* that sink.  Spec is the change-stream consumer (main with BACKFILL off, *)
(* then watch_changes) under crashes, sink-side and source-side errors;    *)
(* FairSpec is the consumer under sink-side errors only, with the fairness *)
(* of the worker's own steps; SpecBackfill is the backfill driver run      *)
(* twice over one document sequence; SpecValues is the same driver over   *)
(* documents of every value kind; SpecBackfillThenWatch is main with      *)
(* BACKFILL and WATCH both on while the source is written to; SpecRegistry *)
(* is the name registry under collection and field names that sanitize to  *)
(* the same identifier, and SpecRegistryCalls its get_or_create calls      *)
(* statement by statement with other workers registering in between.       *)
(***************************************************************************)
EXTENDS Naturals, Sequences, FiniteSets, TLC

(***************************************************************************)
(* Bounds of the model.                                                    *)
(***************************************************************************)
MaxEvents == 3
MaxSinkFaults == 1
MaxSourceFaults == 1
MaxCrashes == 1
MaxDocs == 3

(***************************************************************************)
(* Python's None, as returned by extract_objectid and dict.get.            *)
(***************************************************************************)
None == "$None"

(***************************************************************************)
(* Static projection configuration.                                        *)
(***************************************************************************)
Collections == {"users"}

FK_EXTRACT_FIELDS(collection_name) ==
    CASE collection_name = "users" -> {"department", "admin"}
      [] collection_name = "patients" -> {"admin", "contact_id"}
      [] collection_name = "phonebooks" -> {"admin"}
      [] collection_name = "branches" -> {"admin"}
      [] collection_name = "departments" -> {"admin"}
      [] collection_name = "appointments" ->
            {"user_id", "admin", "department_id", "branch_id", "contact_id"}
      [] OTHER -> {}

\* The junction fields of a collection, in dict order, as <<field, target>>.
JUNCTION_TABLE_FIELDS(collection_name) ==
    CASE collection_name = "users" -> << <<"branch", "branches">> >>
      [] collection_name = "phonebooks" -> << <<"branch", "branches">> >>
      [] OTHER -> << >>

should_extract_as_fk(collection_name, field_name) ==
    field_name \in FK_EXTRACT_FIELDS(collection_name)

\* is_junction_table_field with an empty JUNCTION_TABLE_FIELDS.
is_junction_table_field_never(collection_name, field_name) == FALSE

is_junction_table_field(collection_name, field_name) ==
    \E i \in DOMAIN JUNCTION_TABLE_FIELDS(collection_name) :
        JUNCTION_TABLE_FIELDS(collection_name)[i][1] = field_name

(***************************************************************************)
(* Source values.  A value is a record: kind is its Python type, lit is    *)
(* str(value) for a scalar, items are the elements of a list or the values *)
(* of a dict, keys are the keys of a dict.                                 *)
(***************************************************************************)
NullV == [kind |-> "null", lit |-> "None", keys |-> << >>, items |-> << >>]
BoolV(l) == [kind |-> "bool", lit |-> l, keys |-> << >>, items |-> << >>]
IntV(l) == [kind |-> "int", lit |-> l, keys |-> << >>, items |-> << >>]
FloatV(l) == [kind |-> "float", lit |-> l, keys |-> << >>, items |-> << >>]
StrV(l) == [kind |-> "str", lit |-> l, keys |-> << >>, items |-> << >>]
OidV(l) == [kind |-> "oid", lit |-> l, keys |-> << >>, items |-> << >>]
ListV(xs) == [kind |-> "list", lit |-> "", keys |-> << >>, items |-> xs]
DictV(ks, xs) == [kind |-> "dict", lit |-> "", keys |-> ks, items |-> xs]

\* The literals the model's values are built from.
IntLits == {"0", "1", "2"}
FloatLits == {"1.5"}

\* Python truthiness (bool(value)).
Truthy(v) ==
    CASE v.kind = "null" -> FALSE
      [] v.kind = "bool" -> v.lit = "True"
      [] v.kind = "int" -> v.lit # "0"
      [] v.kind \in {"str", "bytes"} -> v.lit # ""
      [] v.kind \in {"list", "dict"} -> Len(v.items) > 0
      [] OTHER -> TRUE

RECURSIVE JoinStr(_, _)
JoinStr(ss, sep) ==
    IF Len(ss) = 0 THEN ""
    ELSE IF Len(ss) = 1 THEN ss[1]
    ELSE ss[1] \o sep \o JoinStr(Tail(ss), sep)

\* repr(value) for the elements of a container, and str(value).
PyRepr(v) ==
    CASE v.kind = "str" -> "'" \o v.lit \o "'"
      [] v.kind = "oid" -> "ObjectId('" \o v.lit \o "')"
      [] OTHER -> v.lit

PyStr(v) ==
    CASE v.kind = "list" ->
            "[" \o JoinStr([i \in DOMAIN v.items |-> PyRepr(v.items[i])], ", ") \o "]"
      [] v.kind = "dict" ->
            "{" \o JoinStr([i \in DOMAIN v.items |->
                     "'" \o v.keys[i] \o "': " \o PyRepr(v.items[i])], ", ") \o "}"
      [] OTHER -> v.lit

(***************************************************************************)
(* FK extraction helper.                                                   *)
(***************************************************************************)
extract_objectid(value) ==
    CASE value.kind = "null" -> None
      [] value.kind = "oid" -> value.lit
      [] value.kind = "str" -> value.lit
      [] value.kind = "dict" ->
            IF Len(value.keys) = 1 /\ value.keys[1] = "$oid"
            THEN PyStr(value.items[1])
            ELSE IF Len(value.keys) = 1 /\ value.keys[1] = "_id"
            THEN (IF value.items[1].kind = "oid" THEN value.items[1].lit
                  ELSE IF Truthy(value.items[1]) THEN PyStr(value.items[1])
                  ELSE None)
            ELSE None
      [] OTHER -> None

(***************************************************************************)
(* Type lattice.                                                           *)
(***************************************************************************)
infer_pg_type(value) ==
    CASE value.kind = "null" -> "jsonb"
      [] value.kind = "bool" -> "boolean"
      [] value.kind = "int" -> "bigint"
      [] value.kind = "float" -> "double precision"
      [] value.kind = "decimal" -> "numeric"
      [] value.kind = "datetime" -> "timestamptz"
      [] value.kind \in {"oid", "str"} -> "text"
      [] value.kind \in {"list", "dict"} -> "jsonb"
      [] value.kind = "bytes" -> "bytea"
      [] OTHER -> "jsonb"

infer_pg_type_with_context(value, collection_name, field_name) ==
    IF is_junction_table_field(collection_name, field_name) THEN None
    ELSE IF should_extract_as_fk(collection_name, field_name)
            /\ (extract_objectid(value) # None \/ value.kind = "null")
    THEN "text"
    ELSE infer_pg_type(value)

is_type_compatible(value, pg_type) ==
    IF value.kind = "null" THEN TRUE
    ELSE CASE pg_type = "jsonb" -> TRUE
           [] pg_type = "text" -> value.kind \notin {"list", "dict"}
           [] pg_type = "bigint" -> value.kind = "int"
           [] pg_type = "double precision" -> value.kind \in {"int", "float"}
           [] pg_type = "numeric" -> value.kind \in {"int", "float", "decimal"}
           [] pg_type = "boolean" -> value.kind = "bool"
           [] pg_type = "timestamptz" -> value.kind = "datetime"
           [] pg_type = "bytea" -> value.kind = "bytes"
           [] OTHER -> FALSE

\* is_type_compatible_with_context finding every value compatible.
is_type_compatible_with_context_always(value, pg_type, collection_name, field_name) ==
    TRUE

is_type_compatible_with_context(value, pg_type, collection_name, field_name) ==
    IF value.kind = "null" THEN TRUE
    ELSE IF pg_type = "text" /\ should_extract_as_fk(collection_name, field_name)
    THEN extract_objectid(value) # None
    ELSE is_type_compatible(value, pg_type)

(***************************************************************************)
(* Value codec.                                                            *)
(***************************************************************************)
RECURSIVE to_json_compatible(_)
to_json_compatible(value) ==
    CASE value.kind = "oid" -> StrV(value.lit)
      [] value.kind \in {"decimal", "datetime", "bytes"} -> StrV(value.lit)
      [] value.kind = "list" ->
            ListV([i \in DOMAIN value.items |-> to_json_compatible(value.items[i])])
      [] value.kind = "dict" ->
            DictV(value.keys,
                  [i \in DOMAIN value.items |-> to_json_compatible(value.items[i])])
      [] OTHER -> value

\* json.dumps(obj, separators=(item_sep, key_sep)) of a JSON-compatible value.
RECURSIVE JsonDumps(_, _, _)
JsonDumps(v, item_sep, key_sep) ==
    CASE v.kind = "null" -> "null"
      [] v.kind = "bool" -> (IF v.lit = "True" THEN "true" ELSE "false")
      [] v.kind \in {"int", "float"} -> v.lit
      [] v.kind = "str" -> "\"" \o v.lit \o "\""
      [] v.kind = "list" ->
            "[" \o JoinStr([i \in DOMAIN v.items |->
                              JsonDumps(v.items[i], item_sep, key_sep)], item_sep) \o "]"
      [] v.kind = "dict" ->
            "{" \o JoinStr([i \in DOMAIN v.items |->
                              "\"" \o v.keys[i] \o "\"" \o key_sep
                                 \o JsonDumps(v.items[i], item_sep, key_sep)], item_sep) \o "}"

\* What an adapter hands to the sink: py is the Python type of the adapted
\* parameter (psycopg2 sends int, float, Decimal and bool as typed literals,
\* str and Json as untyped quoted literals), s its text.  TypeConflict and
\* any other exception raised while adapting are results of their own.
Wire(py, s) == [py |-> py, s |-> s]
TypeConflict == Wire("TypeConflict", "")
InvalidOperation == Wire("InvalidOperation", "")

IsNumText(s) == s \in IntLits \cup FloatLits \cup {"0.0", "1.0", "2.0"}

\* int(value), float(value) and Decimal(str(value)) on the model's literals.
PyInt(s) == IF s = "1.5" THEN "1" ELSE s
PyFloat(s) == IF s \in IntLits THEN s \o ".0" ELSE s

adapt_value(value, pg_type) ==
    IF value.kind = "null" THEN Wire("none", "")
    ELSE CASE pg_type = "jsonb" ->
                Wire("json", JsonDumps(to_json_compatible(value), ", ", ": "))
           [] pg_type = "text" -> Wire("str", PyStr(value))
           [] pg_type = "bigint" ->
                IF value.kind = "bool" THEN TypeConflict
                ELSE IF value.kind \in {"int", "float"} THEN Wire("int", PyInt(value.lit))
                ELSE IF value.kind = "str" /\ value.lit \in IntLits THEN Wire("int", value.lit)
                ELSE TypeConflict
           [] pg_type = "double precision" ->
                IF value.kind = "bool" THEN TypeConflict
                ELSE IF value.kind \in {"int", "float"} THEN Wire("float", PyFloat(value.lit))
                ELSE IF value.kind = "str" /\ IsNumText(value.lit)
                THEN Wire("float", PyFloat(value.lit))
                ELSE TypeConflict
           [] pg_type = "numeric" ->
                IF value.kind = "decimal" THEN Wire("decimal", value.lit)
                ELSE IF value.kind = "bool" THEN TypeConflict
                ELSE IF IsNumText(PyStr(value)) THEN Wire("decimal", PyStr(value))
                ELSE InvalidOperation
           [] pg_type = "boolean" ->
                IF value.kind = "bool" THEN Wire("bool", value.lit) ELSE TypeConflict
           [] pg_type = "timestamptz" ->
                IF value.kind = "datetime" THEN Wire("datetime", value.lit) ELSE TypeConflict
           [] pg_type = "bytea" ->
                IF value.kind = "bytes" THEN Wire("bytes", value.lit) ELSE TypeConflict
           [] OTHER -> Wire("str", PyStr(value))

adapt_value_with_context(value, pg_type, collection_name, field_name) ==
    IF value.kind = "null" THEN Wire("none", "")
    ELSE IF pg_type = "text" /\ should_extract_as_fk(collection_name, field_name)
            /\ extract_objectid(value) # None
    THEN Wire("str", extract_objectid(value))
    ELSE adapt_value(value, pg_type)

\* Backslash, tab, newline and carriage return are escaped; the strings of
\* the model that hold none of them are returned as they are.
escape_copy_text(value) ==
    CASE value = "a\tb" -> "a\\tb"
      [] value = "a\\b" -> "a\\\\b"
      [] OTHER -> value

\* The text a COPY field carries; "none" is written as \N.
encode_copy_value(value, pg_type) ==
    IF value.kind = "null" THEN Wire("none", "")
    ELSE CASE pg_type = "jsonb" ->
                Wire("copy", JsonDumps(to_json_compatible(value), ",", ":"))
           [] pg_type = "text" -> Wire("copy", PyStr(value))
           [] pg_type = "bigint" ->
                IF value.kind = "bool" THEN TypeConflict
                ELSE IF value.kind \in {"int", "float"} THEN Wire("copy", PyInt(value.lit))
                ELSE IF value.kind = "str" /\ value.lit \in IntLits THEN Wire("copy", value.lit)
                ELSE TypeConflict
           [] pg_type = "double precision" ->
                IF value.kind = "bool" THEN TypeConflict
                ELSE IF value.kind \in {"int", "float"} THEN Wire("copy", PyFloat(value.lit))
                ELSE IF value.kind = "str" /\ IsNumText(value.lit)
                THEN Wire("copy", PyFloat(value.lit))
                ELSE TypeConflict
           [] pg_type = "numeric" ->
                IF value.kind = "decimal" THEN Wire("copy", value.lit)
                ELSE IF value.kind = "bool" THEN TypeConflict
                ELSE IF IsNumText(PyStr(value)) THEN Wire("copy", PyStr(value))
                ELSE InvalidOperation
           [] pg_type = "boolean" ->
                IF value.kind = "bool"
                THEN Wire("copy", IF value.lit = "True" THEN "true" ELSE "false")
                ELSE TypeConflict
           [] pg_type = "timestamptz" ->
                IF value.kind = "datetime" THEN Wire("copy", value.lit) ELSE TypeConflict
           [] pg_type = "bytea" ->
                IF value.kind = "bytes" THEN Wire("copy", "\\x" \o value.lit) ELSE TypeConflict
           [] OTHER -> Wire("copy", JsonDumps(to_json_compatible(value), ", ", ": "))

(***************************************************************************)
(* Identifier sanitizer.  The regular expressions of sanitize_identifier   *)
(* turn every character outside [a-zA-Z0-9_] into "_", lower the case,     *)
(* collapse runs of "_" and strip them from both ends; Sanitized is their  *)
(* result on the names of the model, all shorter than MAX_IDENT_LEN: a     *)
(* lower-case identifier is left as it is.  The SHA-1 digest of            *)
(* make_hashed_name is kept symbolic, one per original name and attempt.   *)
(***************************************************************************)
Sanitized(name) ==
    CASE name \in {"Users", "users!"} -> "users"
      [] name \in {"N", "n!"} -> "n"
      [] name = "!" -> ""
      [] OTHER -> name

sanitize_identifier(name, prefix) == IF Sanitized(name) = "" THEN prefix ELSE Sanitized(name)

short_hash(text) == "#" \o text

AttemptStr(attempt) ==
    CASE attempt = 1 -> "1" [] attempt = 2 -> "2" [] attempt = 3 -> "3" [] OTHER -> "n"

make_hashed_name(base, original, attempt) ==
    base \o "_" \o short_hash(original \o ":" \o AttemptStr(attempt))

\* Every column name the model can allocate, in the order sorted() gives.
SortedNames ==
    <<"a", "admin", "b", "department", "key", "n", "n_#N:2", "n_#n:2">>

(***************************************************************************)
(* The sink.  S is a record of the persisted tables:                       *)
(*   collection_registry : collection_name -> pg_table_name                *)
(*   schema_registry     : <<collection_name, mongo_key>>                  *)
(*                            -> [pg_column_name, pg_type]                 *)
(*   resume_tokens       : scope -> token bytes                            *)
(*   tables              : pg_table -> [columns : column -> type,          *)
(*                                      rows : _id -> (column -> cell)]    *)
(*   junctions           : junction table -> [source_col, target_col,      *)
(*                                            rows : set of <<src, tgt>>]  *)
(* A cell is [t |-> the column type it was stored under, s |-> its text].  *)
(***************************************************************************)
Cell(t, s) == [t |-> t, s |-> s]
NullCell == Cell("null", "")
ErrorCell == Cell("error", "")

EmptySink ==
    [collection_registry |-> << >>, schema_registry |-> << >>,
     resume_tokens |-> << >>, tables |-> << >>, junctions |-> << >>]

\* f with key k bound to v.
Put(f, k, v) == (k :> v) @@ f

\* f without key k.
Drop(f, k) == [x \in DOMAIN f \ {k} |-> f[x]]

(***************************************************************************)
(* How the sink takes a value into a column of physical type col_type: a   *)
(* quoted literal and a COPY field go through the type's input function,   *)
(* a typed literal through an assignment cast.  jsonb keeps one canonical  *)
(* text per JSON value.                                                    *)
(***************************************************************************)
NumCanon(s) ==
    CASE s = "0.0" -> "0" [] s = "1.0" -> "1" [] s = "2.0" -> "2" [] OTHER -> s

\* The JSON-compatible values the model's documents can produce.
JsonAtoms ==
    {NullV, BoolV("True"), BoolV("False"), StrV("x"), StrV("aaa"), StrV("bbb")}
        \cup {IntV(l) : l \in IntLits} \cup {FloatV(l) : l \in FloatLits}
JsonValues ==
    JsonAtoms \cup {ListV(<<x>>) : x \in JsonAtoms}
        \cup {ListV(<<x, y>>) : x \in JsonAtoms, y \in JsonAtoms}
        \cup {ListV(<<StrV(x), StrV(y), StrV(z)>>) :
                 x \in {"aaa", "bbb"}, y \in {"aaa", "bbb"}, z \in {"aaa", "bbb"}}
        \cup {ListV(<< >>)}

jsonb_in(s) ==
    IF \E v \in JsonValues : s \in {JsonDumps(v, ",", ":"), JsonDumps(v, ", ", ": ")}
    THEN LET v == CHOOSE v \in JsonValues :
                     s \in {JsonDumps(v, ",", ":"), JsonDumps(v, ", ", ": ")}
         IN  Cell("jsonb", JsonDumps(v, ", ", ": "))
    ELSE ErrorCell

InputText(s, col_type) ==
    CASE col_type = "text" -> Cell("text", s)
      [] col_type = "jsonb" -> jsonb_in(s)
      [] col_type = "bigint" -> IF s \in IntLits THEN Cell("bigint", s) ELSE ErrorCell
      [] col_type \in {"double precision", "numeric"} ->
            IF IsNumText(s) THEN Cell(col_type, NumCanon(s)) ELSE ErrorCell
      [] col_type = "boolean" ->
            IF s \in {"true", "True", "t", "1"} THEN Cell("boolean", "true")
            ELSE IF s \in {"false", "False", "f", "0"} THEN Cell("boolean", "false")
            ELSE ErrorCell
      [] OTHER -> ErrorCell

\* COPY reverses the escaping of escape_copy_text.
copy_unescape(s) ==
    CASE s = "a\\tb" -> "a\tb"
      [] s = "a\\\\b" -> "a\\b"
      [] OTHER -> s

Store(w, col_type) ==
    CASE w.py = "none" -> NullCell
      [] w.py \in {"str", "json"} -> InputText(w.s, col_type)
      [] w.py = "copy" -> InputText(copy_unescape(escape_copy_text(w.s)), col_type)
      [] w.py = "int" ->
            IF col_type \in {"bigint", "double precision", "numeric", "text"}
            THEN Cell(col_type, w.s) ELSE ErrorCell
      [] w.py \in {"float", "decimal"} ->
            IF col_type \in {"double precision", "numeric"} THEN Cell(col_type, NumCanon(w.s))
            ELSE IF col_type = "text" THEN Cell("text", w.s)
            ELSE IF col_type = "bigint" /\ NumCanon(w.s) \in IntLits
            THEN Cell("bigint", NumCanon(w.s))
            ELSE ErrorCell
      [] w.py = "bool" ->
            IF col_type = "boolean"
            THEN Cell("boolean", IF w.s = "True" THEN "true" ELSE "false")
            ELSE IF col_type = "text"
            THEN Cell("text", IF w.s = "True" THEN "true" ELSE "false")
            ELSE ErrorCell
      [] OTHER -> ErrorCell

\* to_jsonb(column) of ALTER COLUMN ... TYPE jsonb USING to_jsonb(column).
to_jsonb(cell) ==
    CASE cell.t = "null" -> NullCell
      [] cell.t = "jsonb" -> cell
      [] cell.t \in {"bigint", "double precision", "numeric", "boolean"} ->
            Cell("jsonb", cell.s)
      [] OTHER -> Cell("jsonb", "\"" \o cell.s \o "\"")

(***************************************************************************)
(* Registry.  Each operator below is one function of the source run on a   *)
(* healthy connection: it maps the sink before to the sink after its       *)
(* commit.                                                                 *)
(***************************************************************************)
TableNamesInUse(S) == {S.collection_registry[c] : c \in DOMAIN S.collection_registry}

RECURSIVE AllocTableName(_, _, _, _)
AllocTableName(S, collection_name, base, attempt) ==
    LET candidate == IF attempt = 1 THEN base
                     ELSE make_hashed_name(base, collection_name, attempt)
    IN  IF candidate \in TableNamesInUse(S)
        THEN AllocTableName(S, collection_name, base, attempt + 1)
        ELSE [S EXCEPT !.collection_registry = Put(@, collection_name, candidate)]

get_or_create_table_name(S, collection_name) ==
    IF collection_name \in DOMAIN S.collection_registry THEN S
    ELSE AllocTableName(S, collection_name, sanitize_identifier(collection_name, "coll"), 1)

ensure_table(S, pg_table) ==
    IF pg_table \in DOMAIN S.tables THEN S
    ELSE [S EXCEPT !.tables = Put(@, pg_table, [columns |-> << >>, rows |-> << >>])]

\* The schema registry without UNIQUE (collection_name, pg_column_name): no
\* candidate is ever refused.
ColumnNamesInUseNone(S, collection_name) == {}

ColumnNamesInUse(S, collection_name) ==
    {S.schema_registry[k].pg_column_name :
        k \in {x \in DOMAIN S.schema_registry : x[1] = collection_name}}

RECURSIVE AllocColumnName(_, _, _, _, _)
AllocColumnName(S, collection_name, mongo_key, base, attempt) ==
    LET candidate == IF attempt = 1 THEN base
                     ELSE make_hashed_name(base, mongo_key, attempt)
    IN  IF candidate \in ColumnNamesInUse(S, collection_name)
        THEN AllocColumnName(S, collection_name, mongo_key, base, attempt + 1)
        ELSE [S EXCEPT !.schema_registry =
                 Put(@, <<collection_name, mongo_key>>,
                     [pg_column_name |-> candidate, pg_type |-> "pending"])]

get_or_create_column_name(S, collection_name, mongo_key) ==
    IF <<collection_name, mongo_key>> \in DOMAIN S.schema_registry THEN S
    ELSE AllocColumnName(S, collection_name, mongo_key,
                         sanitize_identifier(mongo_key, "key"), 1)

ColumnInfo(mongo_key, pg_column, pg_type) ==
    [mongo_key |-> mongo_key, pg_column |-> pg_column, pg_type |-> pg_type]

load_columns(S, collection_name) ==
    LET keys == {k \in DOMAIN S.schema_registry :
                    k[1] = collection_name /\ S.schema_registry[k].pg_type # "pending"}
    IN  [mongo_key \in {k[2] : k \in keys} |->
            ColumnInfo(mongo_key,
                       S.schema_registry[<<collection_name, mongo_key>>].pg_column_name,
                       S.schema_registry[<<collection_name, mongo_key>>].pg_type)]

update_column_type(S, collection_name, mongo_key, pg_type) ==
    IF <<collection_name, mongo_key>> \in DOMAIN S.schema_registry
    THEN [S EXCEPT !.schema_registry[<<collection_name, mongo_key>>].pg_type = pg_type]
    ELSE S

\* add_column with the type text whatever pg_type is.
add_column_as_text(S, pg_table, pg_column, pg_type) ==
    IF pg_column \in DOMAIN S.tables[pg_table].columns THEN S
    ELSE [S EXCEPT !.tables[pg_table] =
             [columns |-> Put(@.columns, pg_column, "text"),
              rows |-> [id \in DOMAIN @.rows |-> Put(@.rows[id], pg_column, NullCell)]]]

\* ALTER TABLE ... ADD COLUMN IF NOT EXISTS: a column that exists is left
\* as it is, whatever its type.
add_column(S, pg_table, pg_column, pg_type) ==
    IF pg_column \in DOMAIN S.tables[pg_table].columns THEN S
    ELSE [S EXCEPT !.tables[pg_table] =
             [columns |-> Put(@.columns, pg_column, pg_type),
              rows |-> [id \in DOMAIN @.rows |-> Put(@.rows[id], pg_column, NullCell)]]]

\* promote_column_to_jsonb with USING NULL::jsonb.
promote_column_to_jsonb_dropping_values(S, pg_table, pg_column) ==
    [S EXCEPT !.tables[pg_table] =
        [columns |-> [@.columns EXCEPT ![pg_column] = "jsonb"],
         rows |-> [id \in DOMAIN @.rows |->
                      [@.rows[id] EXCEPT ![pg_column] = NullCell]]]]

promote_column_to_jsonb(S, pg_table, pg_column) ==
    [S EXCEPT !.tables[pg_table] =
        [columns |-> [@.columns EXCEPT ![pg_column] = "jsonb"],
         rows |-> [id \in DOMAIN @.rows |->
                      [@.rows[id] EXCEPT ![pg_column] = to_jsonb(@)]]]]

\* delete_row without its WHERE clause.
delete_row_every_row(S, pg_table, id) ==
    [S EXCEPT !.tables[pg_table].rows = << >>]

delete_row(S, pg_table, id) ==
    [S EXCEPT !.tables[pg_table].rows = Drop(@, PyStr(id))]

\* The resume token of a scope that has none (load_resume_token's None).
NoToken == 0

\* BSON.encode(token) and BSON(token_bytes).decode().
BsonEncode(token) == <<"BSON", token>>
BsonDecode(token_bytes) == token_bytes[2]

load_resume_token(S, scope) ==
    IF scope \in DOMAIN S.resume_tokens THEN BsonDecode(S.resume_tokens[scope]) ELSE NoToken

\* save_resume_token that writes nothing.
save_resume_token_not_saving(S, scope, token) == S

save_resume_token(S, scope, token) ==
    [S EXCEPT !.resume_tokens = Put(@, scope, BsonEncode(token))]

(***************************************************************************)
(* In-memory collection state.                                             *)
(***************************************************************************)
\* sorted(columns.values(), key=lambda c: c.pg_column)
SortColumns(columns) ==
    LET used == {columns[k].pg_column : k \in DOMAIN columns}
        names == SelectSeq(SortedNames, LAMBDA c : c \in used)
    IN  [i \in DOMAIN names |->
            columns[CHOOSE k \in DOMAIN columns : columns[k].pg_column = names[i]]]

\* The statement text, kept as its table, its column list and its conflict
\* clause.
build_upsert_sql(pg_table, column_order) ==
    LET cols == <<"_id">> \o [i \in DOMAIN column_order |-> column_order[i].pg_column]
    IN  [table |-> pg_table, cols |-> cols,
         on_conflict |-> IF Len(cols) > 1 THEN "DO UPDATE" ELSE "DO NOTHING"]

CollectionState(collection_name, pg_table, columns) ==
    [collection_name |-> collection_name, pg_table |-> pg_table, columns |-> columns,
     column_order |-> SortColumns(columns),
     upsert_sql |-> build_upsert_sql(pg_table, SortColumns(columns))]

refresh_state(S, state) ==
    CollectionState(state.collection_name, state.pg_table,
                    load_columns(S, state.collection_name))

\* The sink after prepare_collection_state, and the state it returns.
prepare_collection_sink(S, collection_name) ==
    LET S1 == get_or_create_table_name(S, collection_name)
    IN  ensure_table(S1, S1.collection_registry[collection_name])

prepare_collection_state(S, collection_name) ==
    LET S2 == prepare_collection_sink(S, collection_name)
    IN  CollectionState(collection_name, S2.collection_registry[collection_name],
                        load_columns(S2, collection_name))

(***************************************************************************)
(* Documents.  items holds the top-level fields other than _id, in dict    *)
(* order, as <<key, value>>; has_id is "_id" in doc.                       *)
(***************************************************************************)
Doc(id, items) == [has_id |-> TRUE, _id |-> id, items |-> items]
DocWithoutId(items) == [has_id |-> FALSE, _id |-> NullV, items |-> items]

\* doc.get(key)
DocGet(doc, key) ==
    IF \E i \in DOMAIN doc.items : doc.items[i][1] = key
    THEN doc.items[CHOOSE i \in DOMAIN doc.items : doc.items[i][1] = key][2]
    ELSE NullV

(***************************************************************************)
(* Bulk writer.                                                            *)
(***************************************************************************)
Raises(w) == w.py \in {"TypeConflict", "InvalidOperation", "ValueError"}

\* doc_to_row with str(doc.get("_id")) in place of the check for _id.
doc_to_row_without_check(doc, state) ==
    <<Wire("str", PyStr(doc._id))>> \o
    [i \in DOMAIN state.column_order |->
        adapt_value_with_context(DocGet(doc, state.column_order[i].mongo_key),
                                 state.column_order[i].pg_type,
                                 state.collection_name,
                                 state.column_order[i].mongo_key)]

\* doc_to_row: the adapted parameters of one row, _id first; a document
\* without _id raises ValueError.
doc_to_row(doc, state) ==
    IF ~doc.has_id THEN <<Wire("ValueError", "document missing _id")>>
    ELSE <<Wire("str", PyStr(doc._id))>> \o
         [i \in DOMAIN state.column_order |->
            adapt_value_with_context(DocGet(doc, state.column_order[i].mongo_key),
                                     state.column_order[i].pg_type,
                                     state.collection_name,
                                     state.column_order[i].mongo_key)]

\* build_copy_buffer: the fields of one line of the COPY buffer.
copy_line(doc, state) ==
    IF ~doc.has_id THEN <<Wire("ValueError", "document missing _id")>>
    ELSE <<Wire("copy", PyStr(doc._id))>> \o
         [i \in DOMAIN state.column_order |->
            encode_copy_value(DocGet(doc, state.column_order[i].mongo_key),
                              state.column_order[i].pg_type)]

RowRaises(row) == \E i \in DOMAIN row : Raises(row[i])

\* The cells the sink makes of one row of parameters for statement sql.
RowCells(S, sql, row) ==
    [i \in DOMAIN row |->
        IF i = 1 THEN Store(row[i], "text")
        ELSE Store(row[i], S.tables[sql.table].columns[sql.cols[i]])]

\* Whether the sink accepts INSERT ... ON CONFLICT (_id) for these rows: the
\* table and the listed columns exist, every value is accepted by its
\* column, _id is not null, and DO UPDATE touches no row twice.
SinkAccepts(S, sql, rows) ==
    /\ sql.table \in DOMAIN S.tables
    /\ \A i \in 2..Len(sql.cols) : sql.cols[i] \in DOMAIN S.tables[sql.table].columns
    /\ \A r \in DOMAIN rows :
          /\ \A i \in DOMAIN rows[r] : RowCells(S, sql, rows[r])[i].t # "error"
          /\ RowCells(S, sql, rows[r])[1].t # "null"
    /\ sql.on_conflict = "DO UPDATE" =>
          \A r1, r2 \in DOMAIN rows :
              r1 # r2 => RowCells(S, sql, rows[r1])[1] # RowCells(S, sql, rows[r2])[1]

\* One row of INSERT ... ON CONFLICT (_id) DO UPDATE SET ... / DO NOTHING.
ApplyRow(T, sql, cells) ==
    LET id == cells[1].s
        listed == [c \in {sql.cols[i] : i \in 2..Len(sql.cols)} |->
                      cells[CHOOSE i \in 2..Len(sql.cols) : sql.cols[i] = c]]
    IN  IF id \in DOMAIN T.rows
        THEN IF sql.on_conflict = "DO UPDATE"
             THEN [T EXCEPT !.rows[id] = listed @@ @]
             ELSE T
        ELSE [T EXCEPT !.rows =
                 Put(@, id, listed @@ [c \in DOMAIN T.columns |-> NullCell])]

RECURSIVE ApplyRows(_, _, _, _)
ApplyRows(S, T, sql, rows) ==
    IF Len(rows) = 0 THEN T
    ELSE ApplyRows(S, ApplyRow(T, sql, RowCells(S, sql, Head(rows))), sql, Tail(rows))

ExecUpsert(S, sql, rows) ==
    [S EXCEPT !.tables[sql.table] = ApplyRows(S, @, sql, rows)]

\* copy_upsert_batch on a healthy connection: whether it raises, and the
\* sink after its commit.  The staging table is LIKE the target, so COPY
\* parses each field with the target column's input function, and
\* build_upsert_from_staging has the conflict clause of build_upsert_sql.
copy_rows(state, docs) == [i \in DOMAIN docs |-> copy_line(docs[i], state)]

copy_upsert_ok(S, state, docs) ==
    /\ \A i \in DOMAIN docs : ~RowRaises(copy_line(docs[i], state))
    /\ SinkAccepts(S, state.upsert_sql, copy_rows(state, docs))

copy_upsert_batch(S, state, docs) ==
    IF Len(docs) = 0 THEN S ELSE ExecUpsert(S, state.upsert_sql, copy_rows(state, docs))

\* The parameterized path: "exception" when doc_to_row raises, "psycopg2"
\* when the sink rejects the statement, else "ok" and the sink after commit.
param_rows(state, docs) == [i \in DOMAIN docs |-> doc_to_row(docs[i], state)]

execute_values_result(S, state, docs) ==
    IF \E i \in DOMAIN docs : RowRaises(doc_to_row(docs[i], state)) THEN "exception"
    ELSE IF ~SinkAccepts(S, state.upsert_sql, param_rows(state, docs)) THEN "psycopg2"
    ELSE "ok"

execute_values(S, state, docs) == ExecUpsert(S, state.upsert_sql, param_rows(state, docs))

(***************************************************************************)
(* Junction projector.                                                     *)
(***************************************************************************)
get_junction_table_name(source_table, field_name) ==
    sanitize_identifier(source_table \o "_" \o field_name, "junction")

ensure_junction_table(S, source_table, field_name, target_table) ==
    LET junction_table == get_junction_table_name(source_table, field_name)
    IN  IF junction_table \in DOMAIN S.junctions THEN S
        ELSE [S EXCEPT !.junctions =
                 Put(@, junction_table,
                     [source_col |-> source_table \o "_id",
                      target_col |-> target_table \o "_id", rows |-> {}])]

\* sync_junction_table_data without its DELETE.
sync_junction_table_data_keeping_rows(S, junction_table, source_id, target_ids) ==
    [S EXCEPT !.junctions[junction_table].rows =
        @ \cup {<<source_id, target_ids[i]>> : i \in DOMAIN target_ids}]

\* sync_junction_table_data committing after its DELETE and stopping there.
sync_junction_table_data_deleting_only(S, junction_table, source_id, target_ids) ==
    [S EXCEPT !.junctions[junction_table].rows = {r \in @ : r[1] # source_id}]

\* DELETE the rows of source_id, then INSERT ... ON CONFLICT DO NOTHING one
\* row per target id, in one transaction.
sync_junction_table_data(S, junction_table, source_id, target_ids) ==
    [S EXCEPT !.junctions[junction_table].rows =
        {r \in @ : r[1] # source_id}
            \cup {<<source_id, target_ids[i]>> : i \in DOMAIN target_ids}]

\* The list the junction field's value is read as.
junction_array(doc, field_name) ==
    IF DocGet(doc, field_name).kind = "null" THEN << >>
    ELSE IF DocGet(doc, field_name).kind # "list" THEN <<DocGet(doc, field_name)>>
    ELSE DocGet(doc, field_name).items

junction_target_ids(doc, field_name) ==
    LET array_value == junction_array(doc, field_name)
        kept == SelectSeq(array_value,
                          LAMBDA item : extract_objectid(item) \notin {None, ""})
    IN  [i \in DOMAIN kept |-> extract_objectid(kept[i])]

RECURSIVE junction_fields_loop(_, _, _, _, _)
junction_fields_loop(S, junction_fields, pg_table, source_id, doc) ==
    IF Len(junction_fields) = 0 THEN S
    ELSE LET field_name == Head(junction_fields)[1]
             target_collection == Head(junction_fields)[2]
             target_table == IF target_collection \in DOMAIN S.collection_registry
                             THEN S.collection_registry[target_collection]
                             ELSE target_collection
             S1 == ensure_junction_table(S, pg_table, field_name, target_table)
             S2 == sync_junction_table_data(
                       S1, get_junction_table_name(pg_table, field_name), source_id,
                       junction_target_ids(doc, field_name))
         IN  junction_fields_loop(S2, Tail(junction_fields), pg_table, source_id, doc)

process_junction_fields_for_doc(S, collection_name, pg_table, doc) ==
    IF Len(JUNCTION_TABLE_FIELDS(collection_name)) = 0 THEN S
    ELSE IF PyStr(doc._id) = "" THEN S
    ELSE junction_fields_loop(S, JUNCTION_TABLE_FIELDS(collection_name), pg_table,
                              PyStr(doc._id), doc)

RECURSIVE process_junction_fields_for_docs(_, _, _, _)
process_junction_fields_for_docs(S, collection_name, pg_table, docs) ==
    IF Len(docs) = 0 THEN S
    ELSE process_junction_fields_for_docs(
             process_junction_fields_for_doc(S, collection_name, pg_table, Head(docs)),
             collection_name, pg_table, Tail(docs))

(***************************************************************************)
(* Schema manager.  EnsureKeyAction is what ensure_columns_for_document    *)
(* does for one field of the document under the state it was called with:  *)
(* "skip" (junction field, or a compatible value), "add" (no column in the *)
(* state) or "promote" (incompatible with the column's type).              *)
(***************************************************************************)
EnsureKeyAction(state, key, value) ==
    IF is_junction_table_field(state.collection_name, key) THEN "skip"
    ELSE IF key \notin DOMAIN state.columns
    THEN (IF infer_pg_type_with_context(value, state.collection_name, key) = None
          THEN "skip" ELSE "add")
    ELSE IF ~is_type_compatible_with_context(value, state.columns[key].pg_type,
                                             state.collection_name, key)
    THEN "promote"
    ELSE "skip"

\* The three committed steps of the "add" branch, and the two of "promote".
AddBranch(S, state, key, value) ==
    LET pg_type == infer_pg_type_with_context(value, state.collection_name, key)
        S1 == get_or_create_column_name(S, state.collection_name, key)
        pg_column == S1.schema_registry[<<state.collection_name, key>>].pg_column_name
        S2 == add_column(S1, state.pg_table, pg_column, pg_type)
    IN  update_column_type(S2, state.collection_name, key, pg_type)

PromoteBranch(S, state, key) ==
    update_column_type(
        promote_column_to_jsonb(S, state.pg_table, state.columns[key].pg_column),
        state.collection_name, key, "jsonb")

RECURSIVE ensure_columns_loop(_, _, _)
ensure_columns_loop(S, state, items) ==
    IF Len(items) = 0 THEN S
    ELSE LET key == Head(items)[1]
             value == Head(items)[2]
             todo == EnsureKeyAction(state, key, value)
             S1 == CASE todo = "add" -> AddBranch(S, state, key, value)
                     [] todo = "promote" -> PromoteBranch(S, state, key)
                     [] OTHER -> S
         IN  ensure_columns_loop(S1, state, Tail(items))

EnsureChanges(state, doc) ==
    \E i \in DOMAIN doc.items :
        EnsureKeyAction(state, doc.items[i][1], doc.items[i][2]) # "skip"

\* ensure_columns_for_document run to its return on a healthy connection:
\* the sink after it, and the state it returns.
ensure_columns_sink(S, state, doc) == ensure_columns_loop(S, state, doc.items)

ensure_columns_for_document(S, state, doc) ==
    IF EnsureChanges(state, doc)
    THEN refresh_state(ensure_columns_sink(S, state, doc), state)
    ELSE state

(***************************************************************************)
(* Change events.  The event id (the resume token the source hands out     *)
(* with it) is the event's position in the change log.                     *)
(***************************************************************************)
NoDoc == [has_id |-> FALSE, _id |-> NullV, items |-> << >>]

UpsertEvent(op, coll, doc) ==
    [operationType |-> op, coll |-> coll, has_doc |-> TRUE, fullDocument |-> doc,
     documentKey |-> doc._id]
DeleteEvent(coll, id) ==
    [operationType |-> "delete", coll |-> coll, has_doc |-> FALSE, fullDocument |-> NoDoc,
     documentKey |-> id]
OtherEvent(op, coll) ==
    [operationType |-> op, coll |-> coll, has_doc |-> FALSE, fullDocument |-> NoDoc,
     documentKey |-> NullV]

\* The writes the source can make in a run of the change-stream consumer.
ChangeMenu ==
    { UpsertEvent("insert", "users",
          Doc(StrV("1"), << <<"n", IntV("1")>>,
                            <<"branch", ListV(<<OidV("aaa"), OidV("bbb"), OidV("aaa")>>)>> >>)),
      UpsertEvent("replace", "users", Doc(StrV("1"), << <<"n", StrV("x")>> >>)),
      UpsertEvent("insert", "users", Doc(StrV("2"), << <<"branch", OidV("aaa")>> >>)),
      UpsertEvent("insert", "users", DocWithoutId(<< <<"n", IntV("2")>> >>)),
      DeleteEvent("users", StrV("1")),
      OtherEvent("drop", "users") }

Scope == "db:app:" \o short_hash("users")

WatchSettings ==
    { [copy_enabled |-> TRUE, copy_min_rows |-> 1],
      [copy_enabled |-> FALSE, copy_min_rows |-> 1] }

(***************************************************************************)
(* State.                                                                  *)
(***************************************************************************)
VARIABLES
    \* the sink
    mongo_collection_registry, mongo_schema_registry, mongo_resume_tokens,
    pg_tables, pg_junction_tables,
    \* the psycopg2 connection: "idle", "intrans" (a transaction is open) or
    \* "aborted" (a statement failed and the transaction was not rolled back)
    conn_status,
    \* the source: the change log, and the documents of the collection
    oplog, source_docs,
    \* the get_or_create call in progress, or the last one returned
    registry_call,
    \* the worker
    pc, settings, resume_token, stream_pos, change, states,
    key_index, changed, pg_type, via_copy,
    \* backfill_collection
    batch_size, scan_pos, batch_docs, backfill_state, run, first_run_sink,
    \* history: the outcome of the last process_change call, and the event
    \* whose processing was cut short together with what cut it
    last_result, interrupted,
    \* the failures injected so far
    sink_faults, source_faults, crashes

sinkVars == <<mongo_collection_registry, mongo_schema_registry, mongo_resume_tokens,
              pg_tables, pg_junction_tables>>
watchVars == <<resume_token, stream_pos, change, states, key_index, changed, pg_type,
               via_copy>>
backfillVars == <<batch_size, scan_pos, batch_docs, backfill_state, run, first_run_sink>>
historyVars == <<last_result, interrupted>>
faultVars == <<sink_faults, source_faults, crashes>>
vars == <<sinkVars, conn_status, oplog, source_docs, registry_call, pc, settings, watchVars,
          backfillVars, historyVars, faultVars>>

Sink ==
    [collection_registry |-> mongo_collection_registry,
     schema_registry |-> mongo_schema_registry,
     resume_tokens |-> mongo_resume_tokens,
     tables |-> pg_tables, junctions |-> pg_junction_tables]

SetSink(S) ==
    /\ mongo_collection_registry' = S.collection_registry
    /\ mongo_schema_registry' = S.schema_registry
    /\ mongo_resume_tokens' = S.resume_tokens
    /\ pg_tables' = S.tables
    /\ pg_junction_tables' = S.junctions

NoState == [collection_name |-> "", pg_table |-> "", columns |-> << >>,
            column_order |-> << >>,
            upsert_sql |-> [table |-> "", cols |-> << >>, on_conflict |-> ""]]
NotInterrupted == [change |-> 0, by |-> "none"]

\* No get_or_create call has been made.
NoCall == [fn |-> "none", collection_name |-> "", mongo_key |-> "", attempt |-> 0,
           returned |-> None]

\* The worker's memory when the process starts.
FreshMemory ==
    /\ registry_call = NoCall
    /\ resume_token = NoToken /\ stream_pos = 0 /\ change = 0 /\ states = << >>
    /\ key_index = 0 /\ changed = FALSE /\ pg_type = "" /\ via_copy = FALSE

FreshMemoryNext ==
    /\ resume_token' = NoToken /\ stream_pos' = 0 /\ change' = 0 /\ states' = << >>
    /\ key_index' = 0 /\ changed' = FALSE /\ pg_type' = "" /\ via_copy' = FALSE

InitSink ==
    /\ mongo_collection_registry = << >> /\ mongo_schema_registry = << >>
    /\ mongo_resume_tokens = << >> /\ pg_tables = << >> /\ pg_junction_tables = << >>
    /\ conn_status = "idle"

InitNoBackfill ==
    /\ batch_size = 0 /\ scan_pos = 0 /\ batch_docs = << >> /\ backfill_state = NoState
    /\ run = 0 /\ first_run_sink = EmptySink /\ source_docs = << >>

\* main() has connected to an empty sink; BACKFILL is off and WATCH is on.
Init ==
    /\ InitSink /\ InitNoBackfill /\ FreshMemory
    /\ oplog = << >>
    /\ pc = "main"
    /\ settings \in WatchSettings
    /\ last_result = "none" /\ interrupted = NotInterrupted
    /\ sink_faults = 0 /\ source_faults = 0 /\ crashes = 0

(***************************************************************************)
(* The change-stream consumer.                                             *)
(***************************************************************************)
TheChange == oplog[change]
TheState == states[TheChange.coll]
TheDoc == TheChange.fullDocument
TheKey == TheDoc.items[key_index][1]
TheValue == TheDoc.items[key_index][2]
UseCopy(docs) == settings.copy_enabled /\ Len(docs) >= settings.copy_min_rows

RECURSIVE prepare_collections(_, _)
prepare_collections(S, colls) ==
    IF colls = {} THEN S
    ELSE LET c == CHOOSE c \in colls : TRUE
         IN  prepare_collections(prepare_collection_sink(S, c), colls \ {c})

\* main: ensure_registry_tables, then prepare_collection_state for every
\* collection; its states are not handed to watch_changes.
Main ==
    /\ pc = "main"
    /\ SetSink(prepare_collections(Sink, Collections))
    /\ conn_status' = "intrans"
    /\ pc' = "load_resume_token"
    /\ UNCHANGED <<oplog, source_docs, registry_call, settings, watchVars, backfillVars, historyVars,
                   faultVars>>

LoadResumeToken ==
    /\ pc = "load_resume_token"
    /\ resume_token' = load_resume_token(Sink, Scope)
    /\ states' = << >>
    /\ conn_status' = "intrans"
    /\ pc' = "watch"
    /\ UNCHANGED <<sinkVars, oplog, source_docs, registry_call, settings, stream_pos, change, key_index,
                   changed, pg_type, via_copy, backfillVars, historyVars, faultVars>>

\* mongo_db.watch(...): with resume_after the stream starts after the
\* token's event, without it at the end of the change log as it is now.
StreamStart(token) == IF token # NoToken THEN token ELSE Len(oplog)

Watch ==
    /\ pc = "watch"
    /\ stream_pos' = StreamStart(resume_token)
    /\ pc' = "stream_next"
    /\ UNCHANGED <<sinkVars, conn_status, oplog, source_docs, registry_call, settings, resume_token,
                   change, states, key_index, changed, pg_type, via_copy, backfillVars,
                   historyVars, faultVars>>

\* The stream's next event with its token saved on receipt.
StreamNextSavingToken ==
    /\ pc = "stream_next"
    /\ stream_pos < Len(oplog)
    /\ change' = stream_pos + 1
    /\ stream_pos' = stream_pos + 1
    /\ SetSink(save_resume_token(Sink, Scope, stream_pos + 1))
    /\ pc' = "process_change"
    /\ last_result' = "running"
    /\ interrupted' = NotInterrupted
    /\ UNCHANGED <<conn_status, oplog, source_docs, registry_call, settings, resume_token,
                   states, key_index, changed, pg_type, via_copy, backfillVars, faultVars>>

StreamNext ==
    /\ pc = "stream_next"
    /\ stream_pos < Len(oplog)
    /\ change' = stream_pos + 1
    /\ stream_pos' = stream_pos + 1
    /\ pc' = "process_change"
    /\ last_result' = "running"
    /\ interrupted' = NotInterrupted
    /\ UNCHANGED <<sinkVars, conn_status, oplog, source_docs, registry_call, settings, resume_token,
                   states, key_index, changed, pg_type, via_copy, backfillVars, faultVars>>

\* process_change up to its dispatch: the collection's state is prepared on
\* first sighting; insert, replace and update go on to the schema pass,
\* delete to delete_row, and anything else is logged and skipped.
StateAfterLookup ==
    IF TheChange.coll \in DOMAIN states THEN states
    ELSE Put(states, TheChange.coll, prepare_collection_state(Sink, TheChange.coll))

ProcessChange ==
    /\ pc = "process_change"
    /\ TheChange.coll \notin DOMAIN states => conn_status # "aborted"
    /\ states' = StateAfterLookup
    /\ IF TheChange.coll \in DOMAIN states
       THEN UNCHANGED <<sinkVars, conn_status>>
       ELSE /\ SetSink(prepare_collection_sink(Sink, TheChange.coll))
            /\ conn_status' = "intrans"
    /\ IF TheChange.operationType \in {"insert", "replace", "update"}
       THEN IF TheChange.has_doc
            THEN /\ pc' = "ensure_columns"
                 /\ key_index' = 1
                 /\ changed' = FALSE
                 /\ UNCHANGED last_result
            ELSE /\ pc' = "save_resume_token"
                 /\ last_result' = "ok"
                 /\ UNCHANGED <<key_index, changed>>
       ELSE IF TheChange.operationType = "delete"
       THEN /\ pc' = "delete_row"
            /\ UNCHANGED <<key_index, changed, last_result>>
       ELSE /\ pc' = "save_resume_token"
            /\ last_result' = "ok"
            /\ UNCHANGED <<key_index, changed>>
    /\ UNCHANGED <<oplog, source_docs, registry_call, settings, resume_token, stream_pos, change,
                   pg_type, via_copy, backfillVars, interrupted, faultVars>>

\* ensure_columns_for_document, one field at a time.  The field's first
\* committed step is taken here: get_or_create_column_name for a field
\* without a column, promote_column_to_jsonb for an incompatible value.
UpsertEntry == IF UseCopy(<<TheDoc>>) THEN "copy_upsert_batch" ELSE "execute_values"

EnsureColumnsDone ==
    /\ pc = "ensure_columns"
    /\ key_index > Len(TheDoc.items)
    /\ pc' = IF changed THEN "refresh_state" ELSE UpsertEntry
    /\ UNCHANGED <<sinkVars, conn_status, oplog, source_docs, registry_call, settings, watchVars,
                   backfillVars, historyVars, faultVars>>

EnsureColumnsSkip ==
    /\ pc = "ensure_columns"
    /\ key_index <= Len(TheDoc.items)
    /\ EnsureKeyAction(TheState, TheKey, TheValue) = "skip"
    /\ key_index' = key_index + 1
    /\ UNCHANGED <<sinkVars, conn_status, oplog, source_docs, registry_call, pc, settings, resume_token,
                   stream_pos, change, states, changed, pg_type, via_copy, backfillVars,
                   historyVars, faultVars>>

GetOrCreateColumnName ==
    /\ pc = "ensure_columns"
    /\ key_index <= Len(TheDoc.items)
    /\ EnsureKeyAction(TheState, TheKey, TheValue) = "add"
    /\ conn_status # "aborted"
    /\ pg_type' = infer_pg_type_with_context(TheValue, TheState.collection_name, TheKey)
    /\ SetSink(get_or_create_column_name(Sink, TheState.collection_name, TheKey))
    /\ conn_status' = "idle"
    /\ pc' = "add_column"
    /\ UNCHANGED <<oplog, source_docs, registry_call, settings, resume_token, stream_pos, change, states,
                   key_index, changed, via_copy, backfillVars, historyVars, faultVars>>

AddColumn ==
    /\ pc = "add_column"
    /\ conn_status # "aborted"
    /\ SetSink(add_column(Sink, TheState.pg_table,
                 mongo_schema_registry[<<TheState.collection_name, TheKey>>].pg_column_name,
                 pg_type))
    /\ conn_status' = "idle"
    /\ pc' = "update_column_type"
    /\ UNCHANGED <<oplog, source_docs, registry_call, settings, watchVars, backfillVars, historyVars,
                   faultVars>>

PromoteColumnToJsonb ==
    /\ pc = "ensure_columns"
    /\ key_index <= Len(TheDoc.items)
    /\ EnsureKeyAction(TheState, TheKey, TheValue) = "promote"
    /\ conn_status # "aborted"
    /\ TheState.columns[TheKey].pg_column \in DOMAIN pg_tables[TheState.pg_table].columns
    /\ SetSink(promote_column_to_jsonb(Sink, TheState.pg_table,
                                       TheState.columns[TheKey].pg_column))
    /\ pg_type' = "jsonb"
    /\ conn_status' = "idle"
    /\ pc' = "update_column_type"
    /\ UNCHANGED <<oplog, source_docs, registry_call, settings, resume_token, stream_pos, change, states,
                   key_index, changed, via_copy, backfillVars, historyVars, faultVars>>

UpdateColumnType ==
    /\ pc = "update_column_type"
    /\ conn_status # "aborted"
    /\ SetSink(update_column_type(Sink, TheState.collection_name, TheKey, pg_type))
    /\ conn_status' = "idle"
    /\ changed' = TRUE
    /\ key_index' = key_index + 1
    /\ pc' = "ensure_columns"
    /\ UNCHANGED <<oplog, source_docs, registry_call, settings, resume_token, stream_pos, change, states,
                   pg_type, via_copy, backfillVars, historyVars, faultVars>>

\* refresh_state, and states[coll] = state on return to process_change.
RefreshState ==
    /\ pc = "refresh_state"
    /\ conn_status # "aborted"
    /\ states' = [states EXCEPT ![TheChange.coll] = refresh_state(Sink, @)]
    /\ conn_status' = "intrans"
    /\ pc' = UpsertEntry
    /\ UNCHANGED <<sinkVars, oplog, source_docs, registry_call, settings, resume_token, stream_pos,
                   change, key_index, changed, pg_type, via_copy, backfillVars,
                   historyVars, faultVars>>

\* upsert_batch's copy path without the conn.rollback() of its handler.
CopyUpsertBatchWithoutRollback ==
    /\ pc = "copy_upsert_batch"
    /\ IF conn_status # "aborted" /\ copy_upsert_ok(Sink, TheState, <<TheDoc>>)
       THEN /\ SetSink(copy_upsert_batch(Sink, TheState, <<TheDoc>>))
            /\ via_copy' = TRUE
            /\ pc' = "process_junction_fields"
            /\ conn_status' = "idle"
       ELSE /\ UNCHANGED <<sinkVars, via_copy>>
            /\ pc' = "execute_values"
            /\ conn_status' = "aborted"
    /\ UNCHANGED <<oplog, source_docs, registry_call, settings, resume_token, stream_pos, change, states,
                   key_index, changed, pg_type, backfillVars, historyVars, faultVars>>

\* upsert_batch with use_copy: copy_upsert_batch commits, or any exception
\* (a failed statement included) is caught, the connection is rolled back
\* and the batch goes to the parameterized path.
CopyUpsertBatch ==
    /\ pc = "copy_upsert_batch"
    /\ IF conn_status # "aborted" /\ copy_upsert_ok(Sink, TheState, <<TheDoc>>)
       THEN /\ SetSink(copy_upsert_batch(Sink, TheState, <<TheDoc>>))
            /\ via_copy' = TRUE
            /\ pc' = "process_junction_fields"
       ELSE /\ UNCHANGED <<sinkVars, via_copy>>
            /\ pc' = "execute_values"
    /\ conn_status' = "idle"
    /\ UNCHANGED <<oplog, source_docs, registry_call, settings, resume_token, stream_pos, change, states,
                   key_index, changed, pg_type, backfillVars, historyVars, faultVars>>

\* The parameterized path, when neither doc_to_row nor the sink raises.
ExecuteValues ==
    /\ pc = "execute_values"
    /\ conn_status # "aborted"
    /\ execute_values_result(Sink, TheState, <<TheDoc>>) = "ok"
    /\ SetSink(execute_values(Sink, TheState, <<TheDoc>>))
    /\ conn_status' = "idle"
    /\ via_copy' = FALSE
    /\ pc' = "process_junction_fields"
    /\ UNCHANGED <<oplog, source_docs, registry_call, settings, resume_token, stream_pos, change, states,
                   key_index, changed, pg_type, backfillVars, historyVars, faultVars>>

\* The sink rejects the statement of the parameterized path.
ExecuteValuesRejected ==
    /\ pc = "execute_values"
    /\ conn_status # "aborted"
    /\ execute_values_result(Sink, TheState, <<TheDoc>>) = "psycopg2"
    /\ conn_status' = "aborted"
    /\ pc' = "except_psycopg2"
    /\ last_result' = "pg_error"
    /\ interrupted' = [change |-> change, by |-> "pg_error"]
    /\ UNCHANGED <<sinkVars, oplog, source_docs, registry_call, settings, watchVars, backfillVars,
                   faultVars>>

\* doc_to_row raises (ValueError, TypeConflict, ...): watch_changes catches
\* neither, the process ends and is started again.
ExecuteValuesRaises ==
    /\ pc = "execute_values"
    /\ execute_values_result(Sink, TheState, <<TheDoc>>) = "exception"
    /\ FreshMemoryNext
    /\ conn_status' = "idle"
    /\ pc' = "main"
    /\ last_result' = "none"
    /\ interrupted' = NotInterrupted
    /\ UNCHANGED <<sinkVars, oplog, source_docs, registry_call, settings, backfillVars, faultVars>>

HasJunctionFields == Len(JUNCTION_TABLE_FIELDS(TheState.collection_name)) > 0

\* process_junction_fields_for_doc for the event's document, then the return
\* of upsert_batch and of process_change.
ProcessJunctionFields ==
    /\ pc = "process_junction_fields"
    /\ HasJunctionFields => conn_status # "aborted"
    /\ SetSink(process_junction_fields_for_doc(Sink, TheState.collection_name,
                                               TheState.pg_table, TheDoc))
    /\ conn_status' = IF HasJunctionFields THEN "idle" ELSE conn_status
    /\ pc' = "save_resume_token"
    /\ last_result' = "ok"
    /\ UNCHANGED <<oplog, source_docs, registry_call, settings, watchVars, backfillVars, interrupted,
                   faultVars>>

DeleteRow ==
    /\ pc = "delete_row"
    /\ IF TheChange.documentKey.kind = "null"
       THEN UNCHANGED <<sinkVars, conn_status>>
       ELSE /\ conn_status # "aborted"
            /\ SetSink(delete_row(Sink, TheState.pg_table, TheChange.documentKey))
            /\ conn_status' = "idle"
    /\ pc' = "save_resume_token"
    /\ last_result' = "ok"
    /\ UNCHANGED <<oplog, source_docs, registry_call, settings, watchVars, backfillVars, interrupted,
                   faultVars>>

\* resume_token = change.get("_id"); save_resume_token(conn, scope, resume_token)
SaveResumeToken ==
    /\ pc = "save_resume_token"
    /\ conn_status # "aborted"
    /\ resume_token' = change
    /\ SetSink(save_resume_token(Sink, Scope, change))
    /\ conn_status' = "idle"
    /\ pc' = "stream_next"
    /\ UNCHANGED <<oplog, source_docs, registry_call, settings, stream_pos, change, states, key_index,
                   changed, pg_type, via_copy, backfillVars, historyVars, faultVars>>

\* The PyMongoError handler forgetting the saved token as well.
ExceptPyMongoErrorDroppingSavedToken ==
    /\ pc = "except_PyMongoError"
    /\ resume_token' = NoToken
    /\ mongo_resume_tokens' = << >>
    /\ pc' = "watch"
    /\ UNCHANGED <<mongo_collection_registry, mongo_schema_registry, pg_tables,
                   pg_junction_tables, conn_status, oplog, source_docs, registry_call, settings,
                   stream_pos, change, states, key_index, changed, pg_type, via_copy,
                   backfillVars, historyVars, faultVars>>

\* except PyMongoError: resume_token = None; time.sleep(2)
ExceptPyMongoError ==
    /\ pc = "except_PyMongoError"
    /\ resume_token' = NoToken
    /\ pc' = "watch"
    /\ UNCHANGED <<sinkVars, conn_status, oplog, source_docs, registry_call, settings, stream_pos, change,
                   states, key_index, changed, pg_type, via_copy, backfillVars,
                   historyVars, faultVars>>

\* except psycopg2.Error: time.sleep(2)
ExceptPsycopg2Error ==
    /\ pc = "except_psycopg2"
    /\ pc' = "watch"
    /\ UNCHANGED <<sinkVars, conn_status, oplog, source_docs, registry_call, settings, watchVars,
                   backfillVars, historyVars, faultVars>>

(***************************************************************************)
(* Failing statements.  A statement issued while the connection's          *)
(* transaction is aborted fails; so does one the sink fails (SinkFault).   *)
(* Either way psycopg2.Error is raised and the transaction is aborted.     *)
(***************************************************************************)
\* Whether the worker's next step issues a statement on the connection.
IssuesStatement ==
    CASE pc = "process_change" -> TheChange.coll \notin DOMAIN states
      [] pc = "ensure_columns" ->
            /\ key_index <= Len(TheDoc.items)
            /\ EnsureKeyAction(TheState, TheKey, TheValue) # "skip"
      [] pc \in {"add_column", "update_column_type", "refresh_state", "execute_values",
                 "save_resume_token", "copy_upsert_batch"} -> TRUE
      [] pc = "process_junction_fields" -> HasJunctionFields
      [] pc = "delete_row" -> TheChange.documentKey.kind # "null"
      [] OTHER -> FALSE

\* Inside the try block of upsert_batch's copy path.
InCopyPath ==
    pc = "copy_upsert_batch" \/ (pc = "process_junction_fields" /\ via_copy)

StatementFails ==
    /\ IF pc = "save_resume_token"
       THEN /\ resume_token' = change
            /\ UNCHANGED historyVars
       ELSE /\ last_result' = "pg_error"
            /\ interrupted' = [change |-> change, by |-> "pg_error"]
            /\ UNCHANGED resume_token
    /\ conn_status' = "aborted"
    /\ pc' = "except_psycopg2"
    /\ UNCHANGED <<sinkVars, oplog, source_docs, registry_call, settings, stream_pos, change, states,
                   key_index, changed, pg_type, via_copy, backfillVars>>

StatementInAbortedTransaction ==
    /\ IssuesStatement /\ ~InCopyPath
    /\ conn_status = "aborted"
    /\ StatementFails
    /\ UNCHANGED faultVars

SinkFault ==
    /\ IssuesStatement /\ ~InCopyPath
    /\ conn_status # "aborted"
    /\ sink_faults < MaxSinkFaults
    /\ sink_faults' = sink_faults + 1
    /\ StatementFails
    /\ UNCHANGED <<source_faults, crashes>>

\* A statement of the copy path fails: except Exception rolls back and the
\* batch is written through the parameterized path.
CopyPathFault ==
    /\ IssuesStatement /\ InCopyPath
    /\ conn_status # "aborted"
    /\ sink_faults < MaxSinkFaults
    /\ sink_faults' = sink_faults + 1
    /\ conn_status' = "idle"
    /\ pc' = "execute_values"
    /\ UNCHANGED <<sinkVars, oplog, source_docs, registry_call, settings, watchVars, backfillVars,
                   historyVars, source_faults, crashes>>

\* The source fails while the stream is opened or read.
SourceFault ==
    /\ pc \in {"watch", "stream_next"}
    /\ source_faults < MaxSourceFaults
    /\ source_faults' = source_faults + 1
    /\ pc' = "except_PyMongoError"
    /\ UNCHANGED <<sinkVars, conn_status, oplog, source_docs, registry_call, settings, watchVars,
                   backfillVars, historyVars, sink_faults, crashes>>

\* The process is killed and started again: memory and the connection are
\* lost, the sink keeps what was committed.
Crash ==
    /\ pc # "main"
    /\ crashes < MaxCrashes
    /\ crashes' = crashes + 1
    /\ FreshMemoryNext
    /\ conn_status' = "idle"
    /\ pc' = "main"
    /\ last_result' = "none"
    /\ interrupted' = IF pc = "save_resume_token"
                      THEN [change |-> change, by |-> "crash"]
                      ELSE NotInterrupted
    /\ UNCHANGED <<sinkVars, oplog, source_docs, registry_call, settings, backfillVars, sink_faults,
                   source_faults>>

\* A client of the source writes; the change log grows by one event.
SourceWrite ==
    /\ Len(oplog) < MaxEvents
    /\ \E ev \in ChangeMenu : oplog' = Append(oplog, ev)
    /\ UNCHANGED <<sinkVars, conn_status, source_docs, registry_call, pc, settings, watchVars,
                   backfillVars, historyVars, faultVars>>

\* The steps of watch_changes other than its PyMongoError handler.
ConsumerStep ==
    \/ Main \/ LoadResumeToken \/ Watch \/ StreamNext \/ ProcessChange
    \/ EnsureColumnsDone \/ EnsureColumnsSkip \/ GetOrCreateColumnName \/ AddColumn
    \/ PromoteColumnToJsonb \/ UpdateColumnType \/ RefreshState
    \/ CopyUpsertBatch \/ ExecuteValues \/ ExecuteValuesRejected \/ ExecuteValuesRaises
    \/ ProcessJunctionFields \/ DeleteRow \/ SaveResumeToken
    \/ ExceptPsycopg2Error \/ StatementInAbortedTransaction

Next ==
    \/ ConsumerStep \/ ExceptPyMongoError
    \/ SinkFault \/ CopyPathFault \/ SourceFault \/ Crash \/ SourceWrite

Spec == Init /\ [][Next]_vars

\* The consumer with a source that does not fail and a process that is not
\* killed: the worker is a running process, so it takes its next step
\* whenever it has one.
QuietNext == ConsumerStep \/ SinkFault \/ CopyPathFault \/ SourceWrite

FairSpec == Init /\ [][QuietNext]_vars /\ WF_vars(ConsumerStep)

(***************************************************************************)
(* Backfill.  main() with BACKFILL on and WATCH off, run twice over the    *)
(* same collection against a sink that starts empty; the second run may    *)
(* use another BATCH_SIZE.  first_run_sink is the sink as the first run    *)
(* left it.                                                                *)
(***************************************************************************)
BackfillMenu ==
    { Doc(StrV("1"), << <<"n", StrV("x")>> >>),
      Doc(StrV("2"), << <<"n", IntV("1")>> >>),
      Doc(StrV("3"), << <<"n", ListV(<<IntV("1")>>)>> >>),
      Doc(StrV("1"), << <<"branch", ListV(<<OidV("aaa"), OidV("aaa")>>)>> >>),
      Doc(StrV("1"), << <<"a", IntV("1")>> >>),
      Doc(StrV("2"), << <<"a", IntV("2")>>, <<"b", StrV("x")>> >>),
      Doc(StrV("3"), << <<"a", NullV>> >>),
      DocWithoutId(<< <<"n", IntV("2")>> >>) }

BatchSizes == {1, 2}

DocSequences == UNION {[1..len -> BackfillMenu] : len \in 1..MaxDocs}

InitBackfill ==
    /\ InitSink /\ FreshMemory
    /\ oplog = << >>
    /\ source_docs \in DocSequences
    /\ batch_size \in BatchSizes
    /\ settings \in WatchSettings
    /\ scan_pos = 0 /\ batch_docs = << >> /\ backfill_state = NoState
    /\ run = 1 /\ first_run_sink = EmptySink
    /\ pc = "backfill_main"
    /\ last_result = "none" /\ interrupted = NotInterrupted
    /\ sink_faults = 0 /\ source_faults = 0 /\ crashes = 0

\* main up to the call of backfill_collection.
BackfillMain ==
    /\ pc = "backfill_main"
    /\ SetSink(prepare_collections(Sink, Collections))
    /\ backfill_state' = prepare_collection_state(Sink, "users")
    /\ scan_pos' = 0
    /\ batch_docs' = << >>
    /\ pc' = "backfill_collection"
    /\ UNCHANGED <<conn_status, oplog, source_docs, registry_call, settings, watchVars, batch_size, run,
                   first_run_sink, historyVars, faultVars>>

\* One turn of the loop over mongo_collection.find({}): the schema pass for
\* the document, and the document appended to the batch.
BackfillDocument ==
    /\ pc = "backfill_collection"
    /\ scan_pos < Len(source_docs)
    /\ LET doc == source_docs[scan_pos + 1]
       IN  /\ SetSink(ensure_columns_sink(Sink, backfill_state, doc))
           /\ backfill_state' = ensure_columns_for_document(Sink, backfill_state, doc)
           /\ batch_docs' = Append(batch_docs, doc)
    /\ scan_pos' = scan_pos + 1
    /\ pc' = IF Len(batch_docs) + 1 >= batch_size THEN "upsert_batch"
             ELSE "backfill_collection"
    /\ UNCHANGED <<conn_status, oplog, source_docs, registry_call, settings, watchVars, batch_size, run,
                   first_run_sink, historyVars, faultVars>>

\* backfill_collection without its final flush: the documents left in the
\* batch are dropped.
BackfillWithoutLastBatch ==
    /\ pc = "backfill_collection"
    /\ scan_pos = Len(source_docs)
    /\ Len(batch_docs) > 0
    /\ batch_docs' = << >>
    /\ UNCHANGED <<sinkVars, conn_status, oplog, source_docs, registry_call, pc, settings,
                   watchVars, batch_size, scan_pos, backfill_state, run, first_run_sink,
                   historyVars, faultVars>>

\* The cursor is exhausted and documents are left in the batch.
BackfillLastBatch ==
    /\ pc = "backfill_collection"
    /\ scan_pos = Len(source_docs)
    /\ Len(batch_docs) > 0
    /\ pc' = "upsert_batch"
    /\ UNCHANGED <<sinkVars, conn_status, oplog, source_docs, registry_call, settings, watchVars,
                   backfillVars, historyVars, faultVars>>

\* upsert_batch(conn, state, batch_docs, settings) run to its return, and
\* batch_docs.clear().
BackfillUpsertSink ==
    IF UseCopy(batch_docs) /\ copy_upsert_ok(Sink, backfill_state, batch_docs)
    THEN copy_upsert_batch(Sink, backfill_state, batch_docs)
    ELSE execute_values(Sink, backfill_state, batch_docs)

BackfillUpsertBatch ==
    /\ pc = "upsert_batch"
    /\ \/ UseCopy(batch_docs) /\ copy_upsert_ok(Sink, backfill_state, batch_docs)
       \/ execute_values_result(Sink, backfill_state, batch_docs) = "ok"
    /\ SetSink(process_junction_fields_for_docs(
                   BackfillUpsertSink, backfill_state.collection_name,
                   backfill_state.pg_table, batch_docs))
    /\ batch_docs' = << >>
    /\ pc' = "backfill_collection"
    /\ UNCHANGED <<conn_status, oplog, source_docs, registry_call, settings, watchVars, batch_size,
                   scan_pos, backfill_state, run, first_run_sink, historyVars, faultVars>>

\* upsert_batch raises out of backfill_collection and main: the run ends.
BackfillUpsertRaises ==
    /\ pc = "upsert_batch"
    /\ ~(UseCopy(batch_docs) /\ copy_upsert_ok(Sink, backfill_state, batch_docs))
    /\ execute_values_result(Sink, backfill_state, batch_docs) # "ok"
    /\ pc' = "backfill_raised"
    /\ UNCHANGED <<sinkVars, conn_status, oplog, source_docs, registry_call, settings, watchVars,
                   backfillVars, historyVars, faultVars>>

\* backfill_collection returns and main ends; after the first run the
\* worker is started once more.
BackfillReturn ==
    /\ pc = "backfill_collection"
    /\ scan_pos = Len(source_docs)
    /\ Len(batch_docs) = 0
    /\ IF run = 1
       THEN /\ first_run_sink' = Sink
            /\ run' = 2
            /\ batch_size' \in BatchSizes
            /\ pc' = "backfill_main"
       ELSE /\ pc' = "backfill_done"
            /\ UNCHANGED <<first_run_sink, run, batch_size>>
    /\ UNCHANGED <<sinkVars, conn_status, oplog, source_docs, registry_call, settings, watchVars,
                   scan_pos, batch_docs, backfill_state, historyVars, faultVars>>

NextBackfill ==
    \/ BackfillMain \/ BackfillDocument \/ BackfillLastBatch \/ BackfillUpsertBatch
    \/ BackfillUpsertRaises \/ BackfillReturn

SpecBackfill == InitBackfill /\ [][NextBackfill]_vars

(***************************************************************************)
(* The backfill over documents of every value kind: one field per          *)
(* document, either the fk-extract field "department" or the ordinary      *)
(* field "n", holding a scalar of each kind, an ObjectId, an array, and    *)
(* the single-key and other forms of an object.                            *)
(***************************************************************************)
MaxValueDocs == 2

ValueKinds ==
    { NullV, BoolV("True"), IntV("1"), FloatV("1.5"), StrV("x"), OidV("aaa"),
      ListV(<<IntV("1")>>),
      DictV(<<"$oid">>, <<StrV("aaa")>>),
      DictV(<<"_id">>, <<OidV("aaa")>>),
      DictV(<<"_id">>, <<IntV("0")>>),
      DictV(<<"k">>, <<IntV("1")>>) }

ValueMenu ==
    { Doc(StrV(id), << <<f, v>> >>) :
        id \in {"1", "2"}, f \in {"department", "n"}, v \in ValueKinds }

ValueSequences == UNION {[1..len -> ValueMenu] : len \in 1..MaxValueDocs}

InitValues ==
    /\ InitSink /\ FreshMemory
    /\ oplog = << >>
    /\ source_docs \in ValueSequences
    /\ batch_size \in BatchSizes
    /\ settings \in WatchSettings
    /\ scan_pos = 0 /\ batch_docs = << >> /\ backfill_state = NoState
    /\ run = 1 /\ first_run_sink = EmptySink
    /\ pc = "backfill_main"
    /\ last_result = "none" /\ interrupted = NotInterrupted
    /\ sink_faults = 0 /\ source_faults = 0 /\ crashes = 0

SpecValues == InitValues /\ [][NextBackfill]_vars

(***************************************************************************)
(* main() with BACKFILL and WATCH both on, against an empty sink with no   *)
(* resume token: the backfill of the collection, then watch_changes, while *)
(* clients of the source replace documents of the collection.  Neither the *)
(* source nor the sink fails and the process is not killed.                *)
(***************************************************************************)
MaxWrites == 1

\* The collection when the worker starts, in scan order.
CollectionAtStart ==
    << Doc(StrV("1"), << <<"n", IntV("1")>> >>),
       Doc(StrV("2"), << <<"n", IntV("1")>> >>) >>

\* The fields a client gives a document it replaces.
ReplacementItems ==
    { << <<"n", IntV("2")>> >>, << <<"n", StrV("x")>> >>, << <<"a", IntV("1")>> >> }

InitBackfillThenWatch ==
    /\ InitSink /\ FreshMemory
    /\ oplog = << >>
    /\ source_docs \in {SubSeq(CollectionAtStart, 1, len) : len \in 1..2}
    /\ batch_size \in BatchSizes
    /\ settings \in WatchSettings
    /\ scan_pos = 0 /\ batch_docs = << >> /\ backfill_state = NoState
    /\ run = 1 /\ first_run_sink = EmptySink
    /\ pc = "backfill_main"
    /\ last_result = "none" /\ interrupted = NotInterrupted
    /\ sink_faults = 0 /\ source_faults = 0 /\ crashes = 0

\* backfill_collection returns to main, which calls watch_changes.
BackfillThenWatch ==
    /\ pc = "backfill_collection"
    /\ scan_pos = Len(source_docs)
    /\ Len(batch_docs) = 0
    /\ pc' = "load_resume_token"
    /\ UNCHANGED <<sinkVars, conn_status, oplog, source_docs, registry_call, settings,
                   watchVars, backfillVars, historyVars, faultVars>>

\* A client replaces a document of the collection: the collection holds the
\* new version, which a scan that has not reached the document will read,
\* and the change log grows by the replace event.
SourceReplace ==
    /\ Len(oplog) < MaxWrites
    /\ \E i \in DOMAIN source_docs : \E items \in ReplacementItems :
          /\ source_docs' = [source_docs EXCEPT ![i] = Doc(source_docs[i]._id, items)]
          /\ oplog' = Append(oplog, UpsertEvent("replace", "users",
                                                Doc(source_docs[i]._id, items)))
    /\ UNCHANGED <<sinkVars, conn_status, registry_call, pc, settings, watchVars,
                   backfillVars, historyVars, faultVars>>

\* The worker's own steps: the backfill, the hand-over, and the steps of
\* watch_changes that a run without errors takes.
BackfillThenWatchStep ==
    \/ BackfillMain \/ BackfillDocument \/ BackfillLastBatch \/ BackfillUpsertBatch
    \/ BackfillThenWatch
    \/ LoadResumeToken \/ Watch \/ StreamNext \/ ProcessChange
    \/ EnsureColumnsDone \/ EnsureColumnsSkip \/ GetOrCreateColumnName \/ AddColumn
    \/ PromoteColumnToJsonb \/ UpdateColumnType \/ RefreshState
    \/ CopyUpsertBatch \/ ExecuteValues \/ ProcessJunctionFields \/ SaveResumeToken

NextBackfillThenWatch == BackfillThenWatchStep \/ SourceReplace

SpecBackfillThenWatch ==
    InitBackfillThenWatch /\ [][NextBackfillThenWatch]_vars
        /\ WF_vars(BackfillThenWatchStep)

(***************************************************************************)
(* Registry under colliding names.  main() prepares collections whose      *)
(* names sanitize to the same identifier, and the schema pass registers    *)
(* fields whose names do; every call is repeated at will, as it is on each *)
(* start of the worker and for each document.  "users_branch" is a source  *)
(* collection named as the junction table of users.branch is.              *)
(***************************************************************************)
RegistryCollections == {"users", "Users", "users!", "users_branch"}
RegistryKeys == {"n", "N", "!"}

InitRegistry ==
    /\ InitSink /\ FreshMemory
    /\ oplog = << >>
    /\ source_docs = << >>
    /\ batch_size = 1
    /\ settings \in WatchSettings
    /\ scan_pos = 0 /\ batch_docs = << >> /\ backfill_state = NoState
    /\ run = 1 /\ first_run_sink = EmptySink
    /\ pc = "registry"
    /\ last_result = "none" /\ interrupted = NotInterrupted
    /\ sink_faults = 0 /\ source_faults = 0 /\ crashes = 0

\* prepare_collection_state(pg_conn, coll) in main's loop.
RegistryPrepareCollection ==
    /\ pc = "registry"
    /\ \E coll \in RegistryCollections :
          SetSink(prepare_collection_sink(Sink, coll))
    /\ UNCHANGED <<conn_status, oplog, source_docs, registry_call, pc, settings, watchVars, backfillVars,
                   historyVars, faultVars>>

\* get_or_create_column_name(conn, collection_name, key) in the schema pass
\* of a prepared collection.
RegistryColumnName ==
    /\ pc = "registry"
    /\ \E coll \in DOMAIN mongo_collection_registry : \E key \in RegistryKeys :
          SetSink(get_or_create_column_name(Sink, coll, key))
    /\ UNCHANGED <<conn_status, oplog, source_docs, registry_call, pc, settings, watchVars, backfillVars,
                   historyVars, faultVars>>

(***************************************************************************)
(* get_or_create_table_name and get_or_create_column_name statement by     *)
(* statement, with other workers registering on the same sink in between.  *)
(* A call is a record: fn is "table" or "column", attempt the loop's       *)
(* counter, returned the name returned (None while the call runs).         *)
(***************************************************************************)
MaxAttempts == 4

\* The collections and fields the calls are made for: their names collide
\* after sanitize_identifier.
CallCollections == {"users", "Users"}
CallKeys == {"n", "N"}

\* candidate = base if attempt == 1 else make_hashed_name(base, original, attempt)
Candidate(call) ==
    LET original == IF call.fn = "table" THEN call.collection_name ELSE call.mongo_key
        base == sanitize_identifier(original, IF call.fn = "table" THEN "coll" ELSE "key")
    IN  IF call.attempt = 1 THEN base ELSE make_hashed_name(base, original, call.attempt)

\* The name the call's SELECT finds, None when there is no row.
SelectName(S, call) ==
    IF call.fn = "table"
    THEN IF call.collection_name \in DOMAIN S.collection_registry
         THEN S.collection_registry[call.collection_name] ELSE None
    ELSE IF <<call.collection_name, call.mongo_key>> \in DOMAIN S.schema_registry
         THEN S.schema_registry[<<call.collection_name, call.mongo_key>>].pg_column_name
         ELSE None

\* The SELECT of the IntegrityError handler finding no row.
SelectAfterIntegrityErrorFindingNone(S, call) == None

\* The SELECT of the IntegrityError handler, after conn.rollback().
SelectAfterIntegrityError(S, call) == SelectName(S, call)

\* Whether the call's INSERT raises IntegrityError: the primary key, a
\* UNIQUE constraint or the foreign key of the registry table is violated.
InsertRefused(S, call) ==
    IF call.fn = "table"
    THEN \/ call.collection_name \in DOMAIN S.collection_registry
         \/ Candidate(call) \in TableNamesInUse(S)
    ELSE \/ <<call.collection_name, call.mongo_key>> \in DOMAIN S.schema_registry
         \/ Candidate(call) \in ColumnNamesInUse(S, call.collection_name)
         \/ call.collection_name \notin DOMAIN S.collection_registry

\* The sink after the call's INSERT and commit.
InsertName(S, call) ==
    IF call.fn = "table"
    THEN [S EXCEPT !.collection_registry = Put(@, call.collection_name, Candidate(call))]
    ELSE [S EXCEPT !.schema_registry =
             Put(@, <<call.collection_name, call.mongo_key>>,
                 [pg_column_name |-> Candidate(call), pg_type |-> "pending"])]

\* The call and its first SELECT: the row's name is returned, or the loop
\* is entered with attempt = 0.
RegistryCall ==
    /\ pc = "registry"
    /\ \E fn \in {"table", "column"}, coll \in CallCollections, key \in CallKeys :
          LET call == [fn |-> fn, collection_name |-> coll,
                       mongo_key |-> IF fn = "table" THEN "" ELSE key,
                       attempt |-> 0, returned |-> None]
          IN  /\ fn = "column" => coll \in DOMAIN mongo_collection_registry
              /\ IF SelectName(Sink, call) # None
                 THEN /\ registry_call' = [call EXCEPT !.returned = SelectName(Sink, call)]
                      /\ pc' = "registry"
                 ELSE /\ registry_call' = call
                      /\ pc' = "registry_insert"
    /\ UNCHANGED <<sinkVars, conn_status, oplog, source_docs, settings, watchVars,
                   backfillVars, historyVars, faultVars>>

\* One turn of the loop: the INSERT commits and the candidate is returned,
\* or it raises IntegrityError and the handler returns the row it finds or
\* lets the loop go on.
RegistryInsert ==
    /\ pc = "registry_insert"
    /\ registry_call.attempt < MaxAttempts
    /\ LET call == [registry_call EXCEPT !.attempt = @ + 1]
       IN  IF ~InsertRefused(Sink, call)
           THEN /\ SetSink(InsertName(Sink, call))
                /\ registry_call' = [call EXCEPT !.returned = Candidate(call)]
                /\ pc' = "registry"
           ELSE /\ UNCHANGED sinkVars
                /\ IF SelectAfterIntegrityError(Sink, call) # None
                   THEN /\ registry_call' =
                              [call EXCEPT !.returned = SelectAfterIntegrityError(Sink, call)]
                        /\ pc' = "registry"
                   ELSE /\ registry_call' = call
                        /\ pc' = "registry_insert"
    /\ UNCHANGED <<conn_status, oplog, source_docs, settings, watchVars, backfillVars,
                   historyVars, faultVars>>

\* Another worker on the same sink commits a registration while the call
\* is in its loop.
PeerRegisters ==
    /\ pc = "registry_insert"
    /\ \/ \E coll \in CallCollections :
             SetSink(get_or_create_table_name(Sink, coll))
       \/ \E coll \in DOMAIN mongo_collection_registry : \E key \in CallKeys :
             SetSink(get_or_create_column_name(Sink, coll, key))
    /\ UNCHANGED <<conn_status, oplog, source_docs, registry_call, pc, settings, watchVars,
                   backfillVars, historyVars, faultVars>>

NextRegistryCalls == RegistryCall \/ RegistryInsert \/ PeerRegisters

SpecRegistryCalls == InitRegistry /\ [][NextRegistryCalls]_vars

NextRegistry == RegistryPrepareCollection \/ RegistryColumnName

SpecRegistry == InitRegistry /\ [][NextRegistry]_vars

(***************************************************************************)
(* Properties.                                                             *)
(***************************************************************************)
SavedToken == load_resume_token(Sink, Scope)
StreamDelivers == pc = "stream_next" /\ pc' = "process_change"

\* C1: the persisted resume token of the scope changes only in the step
\* that follows the return of process_change(e) without an exception, and it
\* becomes e's id; no step taken while e is being processed, or after its
\* processing raised, changes it.
TokenSavedOnlyAfterProcessChangeReturned ==
    [][mongo_resume_tokens' # mongo_resume_tokens =>
          /\ pc = "save_resume_token"
          /\ last_result = "ok"
          /\ change' = change
          /\ Scope \in DOMAIN mongo_resume_tokens'
          /\ BsonDecode(mongo_resume_tokens'[Scope]) = change]_vars

\* An event was processed and its token saved, after an earlier event's
\* processing had raised.
TokenSavedAfterSuccess ==
    /\ pc = "stream_next" /\ last_result = "ok" /\ change > 0
    /\ SavedToken = change
    /\ sink_faults > 0

\* C2: after a crash between the sink writes of event e_k and the save of
\* its token, the first event the restarted worker processes is e_k.
ResumesFromInterruptedEventAfterCrash ==
    [][(StreamDelivers /\ interrupted.by = "crash" /\ source_faults = 0 /\ sink_faults = 0)
          => change' = interrupted.change]_vars

\* C3: after a psycopg2 error raised while processing event e, the next
\* event the consumer processes is e.
RetriesSameEventAfterSinkError ==
    [][(StreamDelivers /\ interrupted.by = "pg_error" /\ source_faults = 0 /\ crashes = 0)
          => change' = interrupted.change]_vars

\* C4: when processing event e failed with a psycopg2 error while the token
\* of the last processed event is in memory, and the sink fails no further
\* statement on its own account, e is eventually applied and its id saved
\* as the resume token.
SinkErrorEventuallyRecovered ==
    \A e \in 1..MaxEvents :
        (/\ interrupted = [change |-> e, by |-> "pg_error"]
         /\ pc = "except_psycopg2"
         /\ resume_token # NoToken
         /\ sink_faults = MaxSinkFaults)
            ~> (SavedToken >= e)

\* C5: the PyMongoError handler sets the in-memory resume token to none and
\* leaves the persisted token, the registries, the collection tables, the
\* junction tables and the in-memory collection states as they were.
PyMongoErrorClearsOnlyMemoryToken ==
    [][(pc = "except_PyMongoError" /\ pc' = "watch") =>
          /\ resume_token' = NoToken
          /\ UNCHANGED <<sinkVars, states>>]_vars

\* The handler has run while a token was saved for the scope.
PyMongoErrorHandledWithSavedToken ==
    /\ pc = "watch" /\ source_faults > 0
    /\ resume_token = NoToken
    /\ Scope \in DOMAIN mongo_resume_tokens

\* C6: the concrete type recorded for a column changes only to jsonb; a
\* column recorded as jsonb never changes type.
TypeChangesOnlyToJsonb ==
    [][\A k \in DOMAIN mongo_schema_registry :
          (/\ k \in DOMAIN mongo_schema_registry'
           /\ mongo_schema_registry[k].pg_type # "pending"
           /\ mongo_schema_registry'[k].pg_type # mongo_schema_registry[k].pg_type)
             => mongo_schema_registry'[k].pg_type = "jsonb"]_vars

\* C7: every schema_registry row whose type is not "pending" names a column
\* that exists in the collection's table with exactly that type.
RegistryMatchesPhysicalColumns ==
    \A k \in DOMAIN mongo_schema_registry :
        mongo_schema_registry[k].pg_type # "pending" =>
            /\ k[1] \in DOMAIN mongo_collection_registry
            /\ mongo_collection_registry[k[1]] \in DOMAIN pg_tables
            /\ LET columns == pg_tables[mongo_collection_registry[k[1]]].columns
                   row == mongo_schema_registry[k]
               IN  /\ row.pg_column_name \in DOMAIN columns
                   /\ columns[row.pg_column_name] = row.pg_type

\* C8: applying the documents a second time leaves the sink (column types,
\* row values, junction rows, registry) as the first application left it.
SecondApplicationChangesNothing ==
    pc = "backfill_done" => Sink = first_run_sink

\* The references the junction rows of document p for field F stand for.
JunctionRefs(p, F) ==
    LET v == DocGet(p, F)
        xs == IF v.kind = "null" THEN << >> ELSE IF v.kind = "list" THEN v.items ELSE <<v>>
    IN  {extract_objectid(xs[i]) : i \in DOMAIN xs} \ {None, ""}

JunctionRows(tables, junction_table) ==
    IF junction_table \in DOMAIN tables THEN tables[junction_table].rows ELSE {}

\* C9: when process_junction_fields_for_doc has completed for document p,
\* the junction rows of p for each declared field F are exactly
\* {(p._id, r)} for r among the references extracted from p[F], and the rows
\* of other parents are as before.
JunctionRowsExact ==
    [][(pc = "process_junction_fields" /\ pc' = "save_resume_token") =>
          \A i \in DOMAIN JUNCTION_TABLE_FIELDS(TheState.collection_name) :
              LET F == JUNCTION_TABLE_FIELDS(TheState.collection_name)[i][1]
                  jt == get_junction_table_name(TheState.pg_table, F)
                  p == PyStr(TheDoc._id)
              IN  /\ jt \in DOMAIN pg_junction_tables'
                  /\ {r \in pg_junction_tables'[jt].rows : r[1] = p}
                        = {<<p, t>> : t \in JunctionRefs(TheDoc, F)}
                  /\ {r \in pg_junction_tables'[jt].rows : r[1] # p}
                        = {r \in JunctionRows(pg_junction_tables, jt) : r[1] # p}]_vars

\* A document whose junction field repeats a reference has been projected.
JunctionRowsDeduplicated ==
    /\ pc = "save_resume_token" /\ change > 0 /\ TheChange.has_doc
    /\ LET jt == get_junction_table_name(TheState.pg_table, "branch")
           mine == {r \in JunctionRows(pg_junction_tables, jt) : r[1] = PyStr(TheDoc._id)}
       IN  /\ Cardinality(mine) > 1
           /\ Cardinality(mine) < Len(junction_array(TheDoc, "branch"))

ParentTable == mongo_collection_registry["users"]
AllJunctionRows ==
    UNION {pg_junction_tables[jt].rows : jt \in DOMAIN pg_junction_tables}
DeletedIds ==
    {PyStr(oplog[i].documentKey) :
        i \in {j \in DOMAIN oplog : oplog[j].operationType = "delete"}}

\* C10 as stated: the parent id of every junction row is the _id of a row
\* of the parent collection's table.
JunctionParentsPresent ==
    \A r \in AllJunctionRows :
        /\ "users" \in DOMAIN mongo_collection_registry
        /\ r[1] \in DOMAIN pg_tables[ParentTable].rows

\* C10: the parent id of every junction row is the _id of a row of the
\* parent collection's table, or of a document the source has deleted.
JunctionParentsPresentOrDeleted ==
    \A r \in AllJunctionRows :
        /\ "users" \in DOMAIN mongo_collection_registry
        /\ r[1] \in DOMAIN pg_tables[ParentTable].rows \cup DeletedIds

\* Junction rows outlive their deleted parent.
JunctionRowsOfDeletedParent ==
    \E r \in AllJunctionRows :
        /\ r[1] \notin DOMAIN pg_tables[ParentTable].rows
        /\ r[1] \in DeletedIds

\* C11: for every (collection, field) declared as a junction field, the
\* schema registry holds no row for that field and the collection's table
\* holds no column for it: every column of the table is registered to
\* another key of the collection.
JunctionFieldsHaveNoColumn ==
    \A c \in Collections : \A i \in DOMAIN JUNCTION_TABLE_FIELDS(c) :
        LET f == JUNCTION_TABLE_FIELDS(c)[i][1]
        IN  /\ <<c, f>> \notin DOMAIN mongo_schema_registry
            /\ (c \in DOMAIN mongo_collection_registry
                   /\ mongo_collection_registry[c] \in DOMAIN pg_tables) =>
                  LET cols == DOMAIN pg_tables[mongo_collection_registry[c]].columns
                  IN  /\ sanitize_identifier(f, "key") \notin cols
                      /\ \A col \in cols :
                            \E k \in DOMAIN mongo_schema_registry :
                                /\ k[1] = c /\ k[2] # f
                                /\ mongo_schema_registry[k].pg_column_name = col

\* A document carrying the junction field and an ordinary field has been
\* written: its references are in the junction table, its row and the
\* ordinary column are in the collection's table.
JunctionFieldWrittenToJunctionTable ==
    /\ "users" \in DOMAIN mongo_collection_registry
    /\ ParentTable \in DOMAIN pg_tables
    /\ DOMAIN pg_tables[ParentTable].columns # {}
    /\ \E r \in JunctionRows(pg_junction_tables,
                               get_junction_table_name(ParentTable, "branch")) :
          r[1] \in DOMAIN pg_tables[ParentTable].rows

\* C12: when the copy path of upsert_batch fails inside copy_upsert_batch,
\* nothing of it stays in the sink, the connection is left idle, the batch
\* and the collection state are the ones upsert_batch was called with, and
\* the step that follows writes the collection table as the parameterized
\* path alone writes it from the sink the copy path started on.
CopyFailureFallsBackToParameterizedPath ==
    [][/\ (pc = "copy_upsert_batch" /\ pc' = "execute_values") =>
             /\ UNCHANGED <<sinkVars, change, states, oplog>>
             /\ conn_status' = "idle"
       /\ (pc = "execute_values" /\ pc' = "process_junction_fields") =>
             /\ execute_values_result(Sink, TheState, <<TheDoc>>) = "ok"
             /\ pg_tables' = execute_values(Sink, TheState, <<TheDoc>>).tables
             /\ PyStr(TheDoc._id) \in DOMAIN pg_tables'[TheState.pg_table].rows]_vars

\* The copy path was selected and failed, and the parameterized path has
\* written the document's row.
CopyFailedBatchWrittenByParameterizedPath ==
    /\ pc = "process_junction_fields"
    /\ UseCopy(<<TheDoc>>)
    /\ ~via_copy
    /\ PyStr(TheDoc._id) \in DOMAIN pg_tables[TheState.pg_table].rows

\* The document the backfill loop takes in this step, and the fields of a
\* document, other than the declared junction fields, that have no registry
\* row yet.
BackfillStep == pc = "backfill_collection" /\ scan_pos' = scan_pos + 1
BackfillDoc == source_docs[scan_pos + 1]
DocKeys(doc) == {doc.items[i][1] : i \in DOMAIN doc.items}
JunctionFieldNames(c) ==
    {JUNCTION_TABLE_FIELDS(c)[i][1] : i \in DOMAIN JUNCTION_TABLE_FIELDS(c)}
NewFields(doc) ==
    {k \in DocKeys(doc) \ JunctionFieldNames("users") :
        <<"users", k>> \notin DOMAIN mongo_schema_registry}
RegisteredKeys == {k[2] : k \in {x \in DOMAIN mongo_schema_registry : x[1] = "users"}}
ColumnOf(k) == mongo_schema_registry[<<"users", k>>].pg_column_name

\* The cell that holds source value v in a column of type t.
ValueIn(v, t) ==
    CASE v.kind = "null" -> NullCell
      [] t = "jsonb" -> Cell("jsonb", JsonDumps(to_json_compatible(v), ", ", ": "))
      [] t = "text" /\ v.kind \in {"str", "int"} -> Cell("text", v.lit)
      [] t = "bigint" /\ v.kind = "int" -> Cell("bigint", v.lit)
      [] OTHER -> ErrorCell

\* upsert_batch returns: the row of every document of the batch holds, in
\* every column of the table, the document's value for the column's field.
BatchRowsHoldValues ==
    (pc = "upsert_batch" /\ pc' = "backfill_collection") =>
        \A i \in DOMAIN batch_docs :
            LET doc == batch_docs[i]
                T == pg_tables'[ParentTable]
            IN  /\ PyStr(doc._id) \in DOMAIN T.rows
                /\ \A k \in RegisteredKeys :
                      T.rows[PyStr(doc._id)][ColumnOf(k)]
                          = ValueIn(DocGet(doc, k), T.columns[ColumnOf(k)])

\* C13: when a document carries a field, other than a declared junction
\* field, that has no column yet, the schema pass adds exactly one column
\* per such field, of the type inferred from its value, and records it in
\* the registry; the columns of the fields whose value in the document is
\* compatible keep their types and the rows written before keep their
\* values in them and hold null in the new columns; the write that follows
\* leaves the document's values in its row.
NewFieldAddsOneColumn ==
    [][/\ BackfillStep =>
             LET doc == BackfillDoc
                 T == pg_tables[ParentTable]
                 T2 == pg_tables'[ParentTable]
             IN  /\ \A k \in NewFields(doc) :
                       LET ty == infer_pg_type_with_context(DocGet(doc, k), "users", k)
                       IN  /\ <<"users", k>> \in DOMAIN mongo_schema_registry'
                           /\ mongo_schema_registry'[<<"users", k>>].pg_type = ty
                           /\ LET col == mongo_schema_registry'[<<"users", k>>].pg_column_name
                              IN  /\ col \notin DOMAIN T.columns
                                  /\ col \in DOMAIN T2.columns
                                  /\ T2.columns[col] = ty
                                  /\ \A id \in DOMAIN T.rows : T2.rows[id][col] = NullCell
                 /\ Cardinality(DOMAIN T2.columns)
                       = Cardinality(DOMAIN T.columns) + Cardinality(NewFields(doc))
                 /\ DOMAIN T2.rows = DOMAIN T.rows
                 /\ \A k \in RegisteredKeys :
                       is_type_compatible_with_context(
                           DocGet(doc, k), mongo_schema_registry[<<"users", k>>].pg_type,
                           "users", k) =>
                         /\ mongo_schema_registry'[<<"users", k>>]
                               = mongo_schema_registry[<<"users", k>>]
                         /\ T2.columns[ColumnOf(k)] = T.columns[ColumnOf(k)]
                         /\ \A id \in DOMAIN T.rows :
                               T2.rows[id][ColumnOf(k)] = T.rows[id][ColumnOf(k)]
       /\ BatchRowsHoldValues]_vars

\* Scenario S1 has run: {_id: "1", a: 1} then {_id: "2", a: 2, b: "x"}.
ColumnAddedBesideExistingRows ==
    /\ pc = "backfill_collection" /\ run = 1
    /\ "users" \in DOMAIN mongo_collection_registry
    /\ ParentTable \in DOMAIN pg_tables
    /\ pg_tables[ParentTable].columns = ("a" :> "bigint") @@ ("b" :> "text")
    /\ pg_tables[ParentTable].rows =
          ("1" :> (("a" :> Cell("bigint", "1")) @@ ("b" :> NullCell)))
            @@ ("2" :> (("a" :> Cell("bigint", "2")) @@ ("b" :> Cell("text", "x"))))

\* The value of a cell as jsonb: a number or a boolean is the same JSON
\* scalar, a text is the JSON string of its characters.
AsJsonb(cell) ==
    CASE cell.t = "null" -> NullCell
      [] cell.t = "jsonb" -> cell
      [] cell.t \in {"bigint", "double precision", "numeric", "boolean"} ->
            Cell("jsonb", cell.s)
      [] OTHER -> Cell("jsonb", "\"" \o cell.s \o "\"")

\* The registered fields whose value in the document is incompatible with
\* the type of their column.
IncompatibleFields(doc) ==
    {k \in RegisteredKeys :
        ~is_type_compatible_with_context(
            DocGet(doc, k), mongo_schema_registry[<<"users", k>>].pg_type, "users", k)}

\* C14: when a document carries a value that is incompatible with the type
\* of its column, after the schema pass the column's type is jsonb in the
\* registry and in the table and every row written before holds its
\* earlier value as jsonb; the write that follows leaves the document's
\* value, as jsonb, in its row.
IncompatibleValuePromotesToJsonb ==
    [][/\ BackfillStep =>
             \A k \in IncompatibleFields(BackfillDoc) :
                 LET T == pg_tables[ParentTable]
                     T2 == pg_tables'[ParentTable]
                     col == ColumnOf(k)
                 IN  /\ T.columns[col] # "jsonb"
                     /\ mongo_schema_registry'[<<"users", k>>]
                           = [pg_column_name |-> col, pg_type |-> "jsonb"]
                     /\ T2.columns[col] = "jsonb"
                     /\ DOMAIN T2.rows = DOMAIN T.rows
                     /\ \A id \in DOMAIN T.rows :
                           T2.rows[id][col] = AsJsonb(T.rows[id][col])
       /\ (pc = "upsert_batch" /\ pc' = "backfill_collection") =>
             \A i \in DOMAIN batch_docs : \A k \in RegisteredKeys :
                 LET T2 == pg_tables'[ParentTable]
                     v == DocGet(batch_docs[i], k)
                 IN  (T2.columns[ColumnOf(k)] = "jsonb" /\ v.kind # "null") =>
                        T2.rows[PyStr(batch_docs[i]._id)][ColumnOf(k)]
                            = Cell("jsonb", JsonDumps(to_json_compatible(v), ", ", ": "))]_vars

\* Scenario S2 at the promotion: {_id: "2", n: 1} was written under bigint,
\* {_id: "1", n: "x"} has promoted n and is about to be written.
PromotedOverWrittenRow ==
    /\ pc = "upsert_batch" /\ run = 1
    /\ batch_docs = << Doc(StrV("1"), << <<"n", StrV("x")>> >>) >>
    /\ pg_tables[ParentTable].columns = ("n" :> "jsonb")
    /\ pg_tables[ParentTable].rows = ("2" :> ("n" :> Cell("jsonb", "1")))
    /\ mongo_schema_registry[<<"users", "n">>].pg_type = "jsonb"

\* C15: processing a delete event with documentKey._id = k, from its
\* dispatch in process_change to the return of delete_row, removes the row
\* str(k) of the collection's table and changes no other row of it, no
\* column type, no table and no registry row.
DeleteRemovesOnlyItsRow ==
    [][(/\ \/ pc = "process_change" /\ pc' = "delete_row"
           \/ pc = "delete_row" /\ pc' = "save_resume_token"
        /\ TheChange.operationType = "delete") =>
          /\ UNCHANGED <<mongo_collection_registry, mongo_schema_registry>>
          /\ DOMAIN pg_tables' = DOMAIN pg_tables
          /\ \A t \in DOMAIN pg_tables :
                /\ pg_tables'[t].columns = pg_tables[t].columns
                /\ IF pc = "delete_row" /\ t = ParentTable
                      /\ TheChange.documentKey.kind # "null"
                   THEN /\ DOMAIN pg_tables'[t].rows
                             = DOMAIN pg_tables[t].rows \ {PyStr(TheChange.documentKey)}
                        /\ \A id \in DOMAIN pg_tables'[t].rows :
                              pg_tables'[t].rows[id] = pg_tables[t].rows[id]
                   ELSE pg_tables'[t].rows = pg_tables[t].rows]_vars

\* delete_row has returned for a document that had been written, and the
\* row of another document is still there.
DeletedRowGoneOthersKept ==
    /\ pc = "save_resume_token" /\ last_result = "ok"
    /\ TheChange.operationType = "delete"
    /\ PyStr(TheChange.documentKey) \notin DOMAIN pg_tables[ParentTable].rows
    /\ DOMAIN pg_tables[ParentTable].rows # {}
    /\ \E r \in AllJunctionRows : r[1] = PyStr(TheChange.documentKey)

\* The worker's step that commits the row of the event's document, and the
\* field a column of the collection's table is registered to.
UpsertWriteStep ==
    pc \in {"copy_upsert_batch", "execute_values"} /\ pc' = "process_junction_fields"
DeleteRowStep ==
    /\ pc = "delete_row" /\ pc' = "save_resume_token"
    /\ TheChange.documentKey.kind # "null"
KeyOfColumn(col) ==
    CHOOSE k \in RegisteredKeys : mongo_schema_registry[<<"users", k>>].pg_column_name = col

\* What holds of the order of writes: the row of an _id is what the last
\* event whose write or delete was committed made it.  The write of an
\* upsert event leaves in every column of the
\* row the value of the event's document for the column's field, null for
\* a field the document does not carry; the delete of an event leaves no
\* row; and every other step keeps each row, its cells unchanged or, in a
\* promoted column, the same value as jsonb.
RowReflectsLastCommittedEvent ==
    [][/\ UpsertWriteStep =>
             LET T2 == pg_tables'[ParentTable]
                 id == PyStr(TheDoc._id)
             IN  /\ id \in DOMAIN T2.rows
                 /\ \A col \in DOMAIN T2.columns :
                       /\ \E k \in RegisteredKeys : ColumnOf(k) = col
                       /\ T2.rows[id][col]
                             = ValueIn(DocGet(TheDoc, KeyOfColumn(col)), T2.columns[col])
       /\ DeleteRowStep =>
             PyStr(TheChange.documentKey) \notin DOMAIN pg_tables'[ParentTable].rows
       /\ ("users" \in DOMAIN mongo_collection_registry /\ ParentTable \in DOMAIN pg_tables) =>
             LET T == pg_tables[ParentTable]
                 T2 == pg_tables'[ParentTable]
                 written == IF UpsertWriteStep THEN {PyStr(TheDoc._id)}
                            ELSE IF DeleteRowStep THEN {PyStr(TheChange.documentKey)}
                            ELSE {}
             IN  /\ DOMAIN T2.rows \ written = DOMAIN T.rows \ written
                 /\ \A id \in DOMAIN T.rows \ written : \A col \in DOMAIN T.columns :
                       T2.rows[id][col] \in {T.rows[id][col], AsJsonb(T.rows[id][col])}]_vars

\* Whether the row of an event's _id reflects the event.
Reflects(ev) ==
    LET T == pg_tables[ParentTable]
    IN  CASE ev.operationType = "delete" /\ ev.documentKey.kind # "null" ->
                PyStr(ev.documentKey) \notin DOMAIN T.rows
          [] ev.operationType \in {"insert", "replace", "update"}
               /\ ev.has_doc /\ ev.fullDocument.has_id ->
                /\ PyStr(ev.fullDocument._id) \in DOMAIN T.rows
                /\ \A col \in DOMAIN T.columns :
                      T.rows[PyStr(ev.fullDocument._id)][col]
                          = ValueIn(DocGet(ev.fullDocument, KeyOfColumn(col)), T.columns[col])
          [] OTHER -> TRUE

\* C16: when the stream hands the worker an event after another one, the
\* row of the earlier event's _id reflects that event, the last one read
\* for its _id: absent after a delete, else holding in every column the
\* value of the event's document.
RowReflectsLastEventRead ==
    [][(pc = "stream_next" /\ pc' = "process_change" /\ change >= 1 /\ change' # change) =>
          Reflects(oplog[change])]_vars

\* C17: after every step the registry mappings are injective within their
\* scope, two collections never share a pg_table_name and two fields of
\* one collection never share a pg_column_name, and a collection or field
\* that was registered keeps its name: its row is unchanged by the step,
\* and a further get_or_create call for it changes nothing.
RegistryNamesInjectiveAndStable ==
    [][/\ \A c1, c2 \in DOMAIN mongo_collection_registry' :
             c1 # c2 => mongo_collection_registry'[c1] # mongo_collection_registry'[c2]
       /\ \A k1, k2 \in DOMAIN mongo_schema_registry' :
             (k1 # k2 /\ k1[1] = k2[1]) =>
                mongo_schema_registry'[k1].pg_column_name
                    # mongo_schema_registry'[k2].pg_column_name
       /\ \A c \in DOMAIN mongo_collection_registry :
             /\ c \in DOMAIN mongo_collection_registry'
             /\ mongo_collection_registry'[c] = mongo_collection_registry[c]
             /\ get_or_create_table_name(Sink, c) = Sink
       /\ \A k \in DOMAIN mongo_schema_registry :
             /\ k \in DOMAIN mongo_schema_registry'
             /\ mongo_schema_registry'[k].pg_column_name
                   = mongo_schema_registry[k].pg_column_name
             /\ get_or_create_column_name(Sink, k[1], k[2]) = Sink]_vars

\* Three collections whose names sanitize to "users" are registered, and so
\* are two fields of one collection whose names sanitize to "n".
CollidingNamesRegistered ==
    /\ DOMAIN mongo_collection_registry = RegistryCollections
    /\ \E c \in RegistryCollections :
          {<<c, "n">>, <<c, "N">>} \subseteq DOMAIN mongo_schema_registry

\* C18: a change event whose operationType is none of insert, replace,
\* update and delete changes nothing in the sink while process_change runs,
\* and the step that follows its return changes only the resume token of
\* the scope, which becomes the event's id.
OtherEventOnlyAdvancesToken ==
    [][(/\ \/ pc = "process_change" /\ pc' = "save_resume_token"
           \/ pc = "save_resume_token" /\ pc' = "stream_next"
        /\ TheChange.operationType \notin {"insert", "replace", "update", "delete"}) =>
          /\ UNCHANGED <<mongo_collection_registry, mongo_schema_registry, pg_tables,
                         pg_junction_tables>>
          /\ IF pc = "process_change"
             THEN UNCHANGED mongo_resume_tokens
             ELSE /\ DOMAIN mongo_resume_tokens' = {Scope}
                  /\ BsonDecode(mongo_resume_tokens'[Scope]) = change]_vars

\* A drop event has been processed over a table that holds rows: the saved
\* token is the event's id.
DropEventSkippedAndTokenSaved ==
    /\ pc = "stream_next" /\ change >= 1
    /\ oplog[change].operationType = "drop"
    /\ SavedToken = change
    /\ DOMAIN pg_tables[ParentTable].rows # {}

\* C19: when the batch passed to upsert_batch holds a document without _id,
\* the copy path does not succeed, the parameterized path raises,
\* upsert_batch raises, and no row of the batch is written: the collection
\* tables and the junction tables are as they were.
BatchWithoutIdRaisesAndWritesNothing ==
    [][(pc = "upsert_batch" /\ \E i \in DOMAIN batch_docs : ~batch_docs[i].has_id) =>
          /\ ~copy_upsert_ok(Sink, backfill_state, batch_docs)
          /\ execute_values_result(Sink, backfill_state, batch_docs) = "exception"
          /\ pc' = "backfill_raised"
          /\ UNCHANGED <<pg_tables, pg_junction_tables>>]_vars

\* upsert_batch has raised on a batch of two, a document with _id followed
\* by one without: the first document's row is not in the table.
BatchWithIdAndWithoutIdRaised ==
    /\ pc = "backfill_raised"
    /\ Len(batch_docs) = 2
    /\ batch_docs[1].has_id /\ ~batch_docs[2].has_id
    /\ PyStr(batch_docs[1]._id) \notin DOMAIN pg_tables[ParentTable].rows
    /\ UseCopy(batch_docs)

\* The documents already taken by the backfill loop that carry field k.
SeenBefore(k) == {i \in 1..scan_pos : k \in DocKeys(source_docs[i])}

\* C20: a field first seen with a null value is given type jsonb only
\* tentatively: when the first document that carries a non-null value for
\* it is processed, the column's type becomes the type inferred for that
\* value, in the registry and in the table.
NullFirstFieldIsRefined ==
    [][(BackfillStep /\ run = 1) =>
          \A k \in DocKeys(BackfillDoc) \ JunctionFieldNames("users") :
              LET v == DocGet(BackfillDoc, k)
                  ty == infer_pg_type_with_context(v, "users", k)
              IN  (/\ v.kind # "null"
                   /\ SeenBefore(k) # {}
                   /\ \A i \in SeenBefore(k) : DocGet(source_docs[i], k).kind = "null") =>
                     /\ mongo_schema_registry'[<<"users", k>>].pg_type = ty
                     /\ pg_tables'[ParentTable].columns[
                            mongo_schema_registry'[<<"users", k>>].pg_column_name] = ty]_vars


\* The compatibility of a non-null value with a text column as the
\* specification's table states it: a scalar, or a reference that can be
\* extracted in an fk-extract field.
TextCompatibleAsSpecified(v, k) ==
    \/ v.kind \notin {"list", "dict"}
    \/ should_extract_as_fk("users", k) /\ extract_objectid(v) # None

\* C21: in the schema pass of a document, a field whose column is of type
\* text and whose value is not null keeps the type text exactly when the
\* value is a scalar, or the field is an fk-extract field and a reference
\* can be extracted from the value; otherwise the column is promoted.
TextColumnKeptIffScalarOrReference ==
    [][BackfillStep =>
          \A k \in RegisteredKeys :
              LET v == DocGet(BackfillDoc, k)
              IN  (mongo_schema_registry[<<"users", k>>].pg_type = "text"
                   /\ v.kind # "null") =>
                     ((mongo_schema_registry'[<<"users", k>>].pg_type = "text")
                        <=> TextCompatibleAsSpecified(v, k))]_vars


\* C22: when upsert_batch returns, on the copy path as on the parameterized
\* path, the text column of an fk-extract field holds, in the row of every
\* document of the batch whose value yields a reference, the extracted
\* reference string.
FkTextColumnHoldsReferenceOnBothPaths ==
    [][(pc = "upsert_batch" /\ pc' = "backfill_collection") =>
          \A i \in DOMAIN batch_docs : \A k \in RegisteredKeys :
              LET T2 == pg_tables'[ParentTable]
                  v == DocGet(batch_docs[i], k)
              IN  (/\ should_extract_as_fk("users", k)
                   /\ T2.columns[ColumnOf(k)] = "text"
                   /\ extract_objectid(v) # None) =>
                     T2.rows[PyStr(batch_docs[i]._id)][ColumnOf(k)]
                         = Cell("text", extract_objectid(v))]_vars


\* C23: after a crash at any point, no registered field has its column in
\* the collection's table while the type of its registry row is still
\* "pending", and none has a concrete type in the registry while the column
\* is missing from the table.
CrashLeavesColumnAndTypeTogether ==
    (pc = "main" /\ crashes > 0) =>
        \A x \in DOMAIN mongo_schema_registry :
            (x[1] = "users" /\ ParentTable \in DOMAIN pg_tables) =>
                ((mongo_schema_registry[x].pg_column_name
                      \in DOMAIN pg_tables[ParentTable].columns)
                   <=> mongo_schema_registry[x].pg_type # "pending")


\* C24: whenever the worker waits for the next event of the change stream,
\* no transaction is open on the sink connection: every statement issued
\* before has been committed or rolled back.
NoTransactionOpenAtSourceRead ==
    pc = "stream_next" => conn_status = "idle"


\* The junction rows of parent p in junction table jt of sink tables J.
RowsOfParent(J, jt, p) == {r \in JunctionRows(J, jt) : r[1] = p}

\* C25: in every step, a crash or an error included, the junction rows of
\* a parent are left as they were, except in the step that commits
\* sync_junction_table_data for that parent, which leaves exactly the edges
\* of the new document: the rows of a parent are never a part of the old
\* or of the new set, and never empty unless the new set is.
JunctionReplacementIsAtomic ==
    [][\A jt \in DOMAIN pg_junction_tables' :
          \A p \in {r[1] : r \in JunctionRows(pg_junction_tables, jt)
                                   \cup pg_junction_tables'[jt].rows}
                     \cup (IF pc = "process_junction_fields"
                           THEN {PyStr(TheDoc._id)} ELSE {}) :
              IF /\ pc = "process_junction_fields" /\ pc' = "save_resume_token"
                 /\ p = PyStr(TheDoc._id)
                 /\ jt = get_junction_table_name(TheState.pg_table, "branch")
              THEN RowsOfParent(pg_junction_tables', jt, p)
                       = {<<p, t>> : t \in JunctionRefs(TheDoc, "branch")}
              ELSE RowsOfParent(pg_junction_tables', jt, p)
                       = RowsOfParent(pg_junction_tables, jt, p)]_vars

\* The edges of document "1" were committed with the first event, and the
\* second event, a replacement of the document without the field, has
\* replaced them by the empty set.
JunctionEdgesReplaced ==
    /\ pc = "save_resume_token" /\ change = 2 /\ resume_token = 1
    /\ oplog[1].has_doc /\ oplog[1].fullDocument.has_id
    /\ PyStr(oplog[1].fullDocument._id) = "1"
    /\ Len(junction_array(oplog[1].fullDocument, "branch")) > 1
    /\ oplog[2].operationType = "replace"
    /\ PyStr(oplog[2].fullDocument._id) = "1"
    /\ "users_branch" \in DOMAIN pg_junction_tables
    /\ RowsOfParent(pg_junction_tables, "users_branch", "1") = {}


\* C26: when ensure_columns_for_document returns, with or without a
\* refresh, the state it returns has as columns exactly the non-pending
\* registry rows of the collection, with their column names and types, as
\* column_order those columns sorted by column name, and as upsert_sql _id
\* followed by column_order.
ReturnedStateMatchesRegistry ==
    [][(/\ pc \in {"ensure_columns", "refresh_state"}
        /\ pc' \in {"copy_upsert_batch", "execute_values"}) =>
          LET state == states'[TheChange.coll]
          IN  /\ state.columns = load_columns(Sink, state.collection_name)
              /\ state.column_order = SortColumns(state.columns)
              /\ state.upsert_sql = build_upsert_sql(state.pg_table, state.column_order)]_vars


\* C27: when a batch whose documents have all passed the schema pass is
\* handed to upsert_batch, every value of every document is compatible with
\* the type its column has in the state used for writing, and doc_to_row
\* raises TypeConflict for none of them.
BatchCompatibleWithWritingState ==
    pc = "upsert_batch" =>
        \A d \in DOMAIN batch_docs :
            /\ \A i \in DOMAIN backfill_state.column_order :
                  is_type_compatible_with_context(
                      DocGet(batch_docs[d], backfill_state.column_order[i].mongo_key),
                      backfill_state.column_order[i].pg_type,
                      "users",
                      backfill_state.column_order[i].mongo_key)
            /\ \A j \in DOMAIN doc_to_row(batch_docs[d], backfill_state) :
                  doc_to_row(batch_docs[d], backfill_state)[j].py # "TypeConflict"

\* A batch of two documents on the parameterized path: the second has
\* promoted the column the first was checked against as bigint.
BatchCheckedAgainstEarlierType ==
    /\ pc = "upsert_batch" /\ run = 1 /\ ~settings.copy_enabled
    /\ Len(batch_docs) = 2
    /\ DocGet(batch_docs[1], "n") = IntV("1")
    /\ DocGet(batch_docs[2], "n").kind = "list"
    /\ PyStr(batch_docs[1]._id) # PyStr(batch_docs[2]._id)
    /\ backfill_state.columns["n"].pg_type = "jsonb"


\* The names in use in the scope of a call: the table names, or the column
\* names of the call's collection.
NamesInUse(S, call) ==
    IF call.fn = "table" THEN TableNamesInUse(S)
    ELSE ColumnNamesInUse(S, call.collection_name)

\* C28: a get_or_create call that returns, returns the name recorded in the
\* registry for the requested collection or field.  In a turn of its loop:
\* when the collection or field has been registered meanwhile, the
\* registered name is returned and nothing is written; when the candidate is
\* held by another entry, the loop goes on to a different candidate; else
\* the candidate is recorded and returned.  The loop ends: the refused
\* candidates are names in use, so attempt never exceeds their number.
GetOrCreateReturnsRecordedName ==
    [][/\ (registry_call' # registry_call /\ registry_call'.returned # None) =>
             registry_call'.returned = SelectName(Sink', registry_call')
       /\ (pc = "registry_insert" /\ registry_call' # registry_call) =>
             LET call == [registry_call EXCEPT !.attempt = @ + 1]
                 next == [call EXCEPT !.attempt = @ + 1]
             IN  IF SelectName(Sink, call) # None
                 THEN /\ registry_call'.returned = SelectName(Sink, call)
                      /\ pc' = "registry"
                      /\ UNCHANGED sinkVars
                 ELSE IF Candidate(call) \in NamesInUse(Sink, call)
                 THEN /\ registry_call' = call
                      /\ pc' = "registry_insert"
                      /\ UNCHANGED sinkVars
                      /\ Candidate(next) # Candidate(call)
                      /\ call.attempt <= Cardinality(NamesInUse(Sink, call))
                      /\ call.attempt < MaxAttempts
                 ELSE /\ registry_call'.returned = Candidate(call)
                      /\ pc' = "registry"]_vars

\* A call for a collection returned, from its first turn of the loop, a
\* name that was not its candidate: the collection was registered by
\* another worker between the call's SELECT and its INSERT.
ConcurrentlyRegisteredNameReturned ==
    /\ pc = "registry"
    /\ registry_call.fn = "table"
    /\ registry_call.attempt = 1
    /\ registry_call.returned \notin {None, Candidate(registry_call)}


\* C29: in a backfill that meets no error, the batch always holds the
\* documents scanned and not yet flushed, in scan order; a document enters
\* it in the step of its own schema pass, which leaves a column for each of
\* its fields, and leaves it only when upsert_batch returns for the whole
\* batch; a batch handed to upsert_batch holds between 1 and batch_size
\* documents, the final flush holds the residue, fewer than batch_size, and
\* backfill_collection returns with every document scanned and flushed.
BackfillFlushesEveryDocumentOnce ==
    [][/\ batch_docs = SubSeq(source_docs, scan_pos - Len(batch_docs) + 1, scan_pos)
       /\ pc = "upsert_batch" => (1 <= Len(batch_docs) /\ Len(batch_docs) <= batch_size)
       /\ scan_pos' # scan_pos =>
             \/ pc = "backfill_main" /\ scan_pos' = 0 /\ batch_docs = << >>
             \/ /\ pc = "backfill_collection"
                /\ scan_pos' = scan_pos + 1
                /\ batch_docs' = Append(batch_docs, source_docs[scan_pos + 1])
                /\ \A k \in DocKeys(source_docs[scan_pos + 1]) \ JunctionFieldNames("users") :
                      k \in DOMAIN backfill_state'.columns
       /\ batch_docs' # batch_docs =>
             \/ pc = "backfill_collection" /\ scan_pos' = scan_pos + 1
             \/ /\ pc = "upsert_batch" /\ pc' = "backfill_collection"
                /\ batch_docs' = << >>
                /\ \A i \in DOMAIN batch_docs :
                      PyStr(batch_docs[i]._id) \in DOMAIN pg_tables'[ParentTable].rows
       /\ (pc = "backfill_collection" /\ pc' = "upsert_batch" /\ scan_pos' = scan_pos) =>
             /\ scan_pos = Len(source_docs)
             /\ 0 < Len(batch_docs) /\ Len(batch_docs) < batch_size
       /\ (pc = "backfill_collection" /\ pc' \in {"backfill_main", "backfill_done"}) =>
             /\ scan_pos = Len(source_docs)
             /\ batch_docs = << >>]_vars

\* Three documents with BATCH_SIZE 2: the first two have been flushed
\* together and the third is handed to upsert_batch by the final flush.
ResidualBatchFlushed ==
    /\ pc = "upsert_batch" /\ run = 1 /\ batch_size = 2
    /\ Len(source_docs) = 3 /\ scan_pos = 3
    /\ batch_docs = <<source_docs[3]>>
    /\ Cardinality(DOMAIN pg_tables[ParentTable].rows) = 2


\* The last document of the batch with the _id of document i.
LastWithSameId(i) ==
    batch_docs[CHOOSE j \in DOMAIN batch_docs :
                  /\ batch_docs[j]._id = batch_docs[i]._id
                  /\ \A m \in DOMAIN batch_docs :
                        batch_docs[m]._id = batch_docs[i]._id => m <= j]

\* C30: a batch in which two documents have the same _id is written by
\* upsert_batch without error, and the row of that _id then holds the
\* values of the last of those documents.
DuplicateIdsBatchKeepsLastDocument ==
    [][(/\ pc = "upsert_batch" /\ pc' # pc
        /\ \A i \in DOMAIN batch_docs : batch_docs[i].has_id
        /\ \E i, j \in DOMAIN batch_docs : i # j /\ batch_docs[i]._id = batch_docs[j]._id) =>
          /\ pc' = "backfill_collection"
          /\ \A i \in DOMAIN batch_docs :
                LET T2 == pg_tables'[ParentTable]
                    id == PyStr(batch_docs[i]._id)
                IN  /\ id \in DOMAIN T2.rows
                    /\ \A k \in RegisteredKeys :
                          T2.rows[id][ColumnOf(k)]
                              = ValueIn(DocGet(LastWithSameId(i), k),
                                        T2.columns[ColumnOf(k)])]_vars


\* The row of the document of write e holds the values of the document as
\* the collection has it now.
WriteReflected(e) ==
    e <= Len(oplog) /\
    LET id == oplog[e].fullDocument._id
        now == source_docs[CHOOSE i \in DOMAIN source_docs : source_docs[i]._id = id]
    IN  /\ "users" \in DOMAIN mongo_collection_registry
        /\ ParentTable \in DOMAIN pg_tables
        /\ PyStr(id) \in DOMAIN pg_tables[ParentTable].rows
        /\ \A k \in DocKeys(now) : <<"users", k>> \in DOMAIN mongo_schema_registry
        /\ \A k \in RegisteredKeys :
              /\ ColumnOf(k) \in DOMAIN pg_tables[ParentTable].columns
              /\ pg_tables[ParentTable].rows[PyStr(id)][ColumnOf(k)]
                    = ValueIn(DocGet(now, k), pg_tables[ParentTable].columns[ColumnOf(k)])

\* A write that the open change stream has not delivered yet is
\* eventually reflected in the sink.
WriteAfterStreamOpenedReflected ==
    \A e \in 1..MaxWrites :
        (/\ pc \notin {"backfill_main", "backfill_collection", "upsert_batch",
                       "load_resume_token", "watch"}
         /\ stream_pos < e /\ e <= Len(oplog))
            ~> WriteReflected(e)

\* C31: with backfill and watch both on and no resume token persisted,
\* every write made to the collection after the worker starts is eventually
\* reflected in the sink.
EveryWriteEventuallyReflected ==
    \A e \in 1..MaxWrites : (e <= Len(oplog)) ~> WriteReflected(e)

\* The junction tables of the registered collections: one per junction
\* field of a collection, named after the collection's table
\* (process_junction_fields_for_doc on state.table_name).
JunctionTableNamesOf(S) ==
    UNION {{get_junction_table_name(S.collection_registry[c],
                                    JUNCTION_TABLE_FIELDS(c)[i][1]) :
                i \in DOMAIN JUNCTION_TABLE_FIELDS(c)} :
           c \in DOMAIN S.collection_registry}

\* C32: the name of a junction table never equals the table name allocated
\* to a registered collection, whatever collections the source contains.
JunctionNameNeverACollectionTable ==
    JunctionTableNamesOf(Sink) \cap TableNamesInUse(Sink) = {}

====
